---------------------------- MODULE Spec2Model ----------------------------
(***************************************************************************)
(* A model of the fine-tuning pipeline of tmerrien/revio-test:             *)
(*   python/prepare_training_data.py  (the Splitter),                      *)
(*   python/fine_tune.py              (the Job Driver),                    *)
(*   python/validate_model.py         (the Scorer).                        *)
(* The three stages are separate processes that only share files, so each  *)
(* stage has a specification of its own over its own variables; the        *)
(* variables of the other stages stay at their idle values.                *)
(***************************************************************************)
EXTENDS Integers, Sequences, FiniteSets, TLC

VARIABLES
    \* prepare_training_data.py, stratified_split
    df,             \* the dataset: a sequence of rows [row, category]
    split_pc,       \* "start" | "loop" | "returned"
    grouped,        \* the categories still to be iterated, in group-by order
    train_data,     \* the train rows collected so far
    val_data,       \* the validation rows collected so far
    \* save_jsonl followed by load_validation_data
    rt_pc,          \* "start" | "saved" | "loaded"
    rt_data,        \* the rows handed to save_jsonl
    rt_file,        \* the text of the file save_jsonl wrote
    rt_loaded,      \* what load_validation_data made of the file
    \* prepare_training_data.py, validate_jsonl
    vj_pc,          \* "start" | "loop" | "returned" | "raised"
    vj_file,        \* the text of the file under validation
    lines,          \* f.readlines()
    vj_i,           \* the number of the line the loop is at
    vj_result,      \* the return value, or the exception that left the function
    vj_printed,     \* the line numbers the function reported as bad
    \* fine_tune.py, main
    drv_pc,         \* the step main is at
    api_key,        \* os.getenv('OPENAI_API_KEY'): None or a str
    training_file,  \* whether data/training.jsonl exists
    training_file_id, \* what upload_training_file returned, None before
    job_id,         \* what create_fine_tuning_job returned, None before
    remote,         \* the job at the provider: [status, fine_tuned_model]
    job,            \* the last answer of jobs.retrieve
    last_status,    \* the status of the last status line, None at first
    check_count,    \* the number of status checks made
    observed,       \* the statuses retrieved, one per check
    model_id,       \* what monitor_fine_tuning_job returned
    id_file,        \* models/fine_tuned_model_id.txt: None (absent) or its text
    meta_file,      \* models/fine_tuned_metadata.json: None or its content
    drv_log,        \* what the run did and printed, in order
    drv_exit,       \* the exit status of main, None while it runs
    \* validate_model.py, main
    sc_pc,          \* the step main is at
    sc_key,         \* os.getenv('OPENAI_API_KEY'): None or a str
    sc_id_file,     \* models/fine_tuned_model_id.txt: None (absent) or its text
    sc_val_file,    \* data/validation.jsonl: None (absent) or its text
    sc_model_id,    \* what load_model_id returned
    validation_examples,    \* what load_validation_data returned
    replies,        \* what the provider answered, one answer per request
    correct,        \* validate_model's count of correct predictions
    total,          \* len(validation_examples)
    results,        \* validate_model's list of per-record results
    per_category_stats,     \* expected category -> [correct, total]
    sc_log,         \* what the run did and printed, in order
    results_file,   \* models/validation_results.json: None or its content
    sc_exit         \* the exit status of the process, None while it runs

splitVars == <<df, split_pc, grouped, train_data, val_data>>
rtVars == <<rt_pc, rt_data, rt_file, rt_loaded>>
vjVars == <<vj_pc, vj_file, lines, vj_i, vj_result, vj_printed>>
drvVars == <<drv_pc, api_key, training_file, training_file_id, job_id, remote, job,
             last_status, check_count, observed, model_id, id_file, meta_file,
             drv_log, drv_exit>>

scVars == <<sc_pc, sc_key, sc_id_file, sc_val_file, sc_model_id, validation_examples,
            replies, correct, total, results, per_category_stats, sc_log,
            results_file, sc_exit>>

vars == <<splitVars, rtVars, vjVars, drvVars, scVars>>

\* What a stage leaves alone: the variables of the other stages.
notSplitVars == <<rtVars, vjVars, drvVars, scVars>>
notRtVars == <<splitVars, vjVars, drvVars, scVars>>
notVjVars == <<splitVars, rtVars, drvVars, scVars>>
notDrvVars == <<splitVars, rtVars, vjVars, scVars>>
notScVars == <<splitVars, rtVars, vjVars, drvVars>>

(***************************************************************************)
(* Bounds of the model.                                                    *)
(***************************************************************************)
MaxRows == 4        \* rows of an enumerated dataset
MaxCats == 2        \* distinct categories of an enumerated dataset
MaxChars == 2       \* atoms of the three fields of a serialized row, together
MaxFileLines == 2   \* lines of a file handed to validate_jsonl
MaxKeyLen == 3      \* characters of a credential
MaxPolls == 4       \* status checks of one monitored job
MaxExamples == 5    \* examples of a validation file

(***************************************************************************)
(* General helpers.                                                        *)
(***************************************************************************)
Range(s) == {s[i] : i \in 1..Len(s)}

\* Body(value), with the value computed once (a LET definition is computed
\* again at each of its uses).
With(value, Body(_)) == CHOOSE out \in {Body(v) : v \in {value}} : TRUE

Perms(n) == {p \in [1..n -> 1..n] : \A i, j \in 1..n : p[i] = p[j] => i = j}

RECURSIVE Flatten(_, _, _)
\* The concatenation of the sequences ss[lo], ..., ss[hi].
Flatten(ss, lo, hi) ==
    IF lo > hi THEN <<>>
    ELSE IF lo = hi THEN ss[lo]
    ELSE LET mid == (lo + hi) \div 2
         IN Flatten(ss, lo, mid) \o Flatten(ss, mid + 1, hi)

RECURSIVE SortedSeq(_)
\* The elements of a finite set of integers, ascending.
SortedSeq(S) ==
    IF S = {} THEN <<>>
    ELSE LET m == CHOOSE x \in S : \A y \in S : x <= y
         IN <<m>> \o SortedSeq(S \ {m})

(***************************************************************************)
(* Text and Python values.                                                 *)
(*                                                                         *)
(* A text (a Python str, a line, a file) is a sequence of atoms. An atom   *)
(* is one character that JSON treats specially (the double quote, the      *)
(* backslash, the newline, a non-ASCII letter, a bracket, ...) or a run of *)
(* ordinary characters that is never split ("category", "billing").        *)
(***************************************************************************)
DQ == "\""              \* the double quote
BS == "\\"              \* the backslash
NL == "\n"              \* the newline, a control character
EACUTE == "U+00E9"      \* a non-ASCII letter
HexOfEACUTE == "00e9"   \* its four hex digits in a \u escape

Whitespace == {" ", NL}
DigitAtoms == <<"0", "1", "2", "3", "4", "5", "6", "7", "8", "9">>

\* Python values, tagged with their type.
PyStr(s) == [t |-> "str", s |-> s]
PyInt(n) == [t |-> "int", n |-> n]
PyNone == [t |-> "None"]
PyList(items) == [t |-> "list", items |-> items]
\* A dict keeps its items in insertion order; every key here is a str.
PyDict(pairs) == [t |-> "dict", pairs |-> pairs]
Item(k, v) == [k |-> k, v |-> v]

\* The outcome of evaluating a Python expression: a value or an exception.
Ret(v) == [exc |-> "", val |-> v]
Raise(e) == [exc |-> e]

HasKey(d, k) == \E i \in 1..Len(d.pairs) : d.pairs[i].k = k
DictValue(d, k) == d.pairs[CHOOSE i \in 1..Len(d.pairs) : d.pairs[i].k = k].v
\* d[k] = v on the item list of a dict: a present key keeps its place.
DictSet(pairs, k, v) ==
    IF \E i \in 1..Len(pairs) : pairs[i].k = k
    THEN [i \in 1..Len(pairs) |-> IF pairs[i].k = k THEN Item(k, v) ELSE pairs[i]]
    ELSE Append(pairs, Item(k, v))

\* obj[key] for a str key.
PyGetKey(obj, k) ==
    IF obj.t = "dict"
    THEN IF HasKey(obj, k) THEN Ret(DictValue(obj, k)) ELSE Raise("KeyError")
    ELSE Raise("TypeError")

\* obj[n] for an index n >= 0 (Python counts from 0).
PyGetIndex(obj, n) ==
    CASE obj.t = "list" ->
            IF n < Len(obj.items) THEN Ret(obj.items[n + 1]) ELSE Raise("IndexError")
      [] obj.t = "str" ->
            IF n < Len(obj.s) THEN Ret(PyStr(<<obj.s[n + 1]>>)) ELSE Raise("IndexError")
      [] obj.t = "dict" -> Raise("KeyError")
      [] OTHER -> Raise("TypeError")

\* word in obj, for a word of one atom: substring of a str, element of a
\* list, key of a dict; a TypeError for a value that is not iterable.
PyContains(obj, word) ==
    CASE obj.t = "str" -> Ret(\E i \in 1..Len(obj.s) : obj.s[i] = word)
      [] obj.t = "list" -> Ret(\E i \in 1..Len(obj.items) : obj.items[i] = PyStr(<<word>>))
      [] obj.t = "dict" -> Ret(HasKey(obj, <<word>>))
      [] OTHER -> Raise("TypeError")

\* len(obj).
PyLen(obj) ==
    CASE obj.t = "str" -> Ret(Len(obj.s))
      [] obj.t = "list" -> Ret(Len(obj.items))
      [] obj.t = "dict" -> Ret(Len(obj.pairs))
      [] OTHER -> Raise("TypeError")

\* The values a for loop over obj yields (obj is a str, a list or a dict).
PyIter(obj) ==
    CASE obj.t = "str" -> [i \in 1..Len(obj.s) |-> PyStr(<<obj.s[i]>>)]
      [] obj.t = "list" -> obj.items
      [] obj.t = "dict" -> [i \in 1..Len(obj.pairs) |-> PyStr(obj.pairs[i].k)]

(***************************************************************************)
(* json.dumps (ensure_ascii, separators ", " and ": ").                    *)
(***************************************************************************)
\* The escape of an atom with the backslash itself left as it is.
EscapeAtomNoBackslash(c) ==
    CASE c = DQ -> <<BS, DQ>>
      [] c = NL -> <<BS, "n">>
      [] c = EACUTE -> <<BS, "u", HexOfEACUTE>>
      [] OTHER -> <<c>>
\* The escape of one atom of a str: the quote, the backslash and the control
\* characters get a backslash escape, a non-ASCII character a \u escape.
EscapeAtom(c) ==
    CASE c = DQ -> <<BS, DQ>>
      [] c = BS -> <<BS, BS>>
      [] c = NL -> <<BS, "n">>
      [] c = EACUTE -> <<BS, "u", HexOfEACUTE>>
      [] OTHER -> <<c>>

EscapeAll(s) == Flatten([i \in 1..Len(s) |-> EscapeAtom(s[i])], 1, Len(s))

EncodeString(s) == <<DQ>> \o EscapeAll(s) \o <<DQ>>

RECURSIVE JsonDumps(_), DumpItems(_), DumpPairs(_)
JsonDumps(v) ==
    CASE v.t = "str" -> EncodeString(v.s)
      [] v.t = "int" -> <<DigitAtoms[v.n + 1]>>
      [] v.t = "None" -> <<"null">>
      [] v.t = "list" -> <<"[">> \o DumpItems(v.items) \o <<"]">>
      [] v.t = "dict" -> <<"{">> \o DumpPairs(v.pairs) \o <<"}">>
DumpItems(items) ==
    IF items = <<>> THEN <<>>
    ELSE JsonDumps(Head(items))
         \o (IF Len(items) > 1 THEN <<",", " ">> \o DumpItems(Tail(items)) ELSE <<>>)
DumpPairs(pairs) ==
    IF pairs = <<>> THEN <<>>
    ELSE EncodeString(Head(pairs).k) \o <<":", " ">> \o JsonDumps(Head(pairs).v)
         \o (IF Len(pairs) > 1 THEN <<",", " ">> \o DumpPairs(Tail(pairs)) ELSE <<>>)

(***************************************************************************)
(* json.loads: a recursive-descent parse of a text. A parse result is      *)
(* [ok |-> TRUE, val, pos] (the value and the place after it) or Fail, the *)
(* JSONDecodeError.                                                        *)
(***************************************************************************)
Fail == [ok |-> FALSE]
Parsed(v, p) == [ok |-> TRUE, val |-> v, pos |-> p]

RECURSIVE SkipWs(_, _)
SkipWs(txt, i) ==
    IF i <= Len(txt) /\ txt[i] \in Whitespace THEN SkipWs(txt, i + 1) ELSE i

RECURSIVE BsRun(_, _, _)
\* The number of backslashes in a row just before place j, from place i on.
BsRun(txt, i, j) ==
    IF j - 1 >= i /\ txt[j - 1] = BS THEN 1 + BsRun(txt, i, j - 1) ELSE 0

\* In a str that starts at place i: the atom at place j follows the backslash
\* that opens an escape.
Escaped(txt, i, j) == BsRun(txt, i, j) % 2 = 1
\* The atom at place j is the backslash that opens an escape.
EscStart(txt, i, j) == txt[j] = BS /\ BsRun(txt, i, j) % 2 = 0
\* The atom at place j holds the hex digits of a \u escape.
HexArg(txt, i, j) == j - 2 >= i /\ EscStart(txt, i, j - 2) /\ txt[j - 1] = "u"

\* What the atom at place j adds to the decoded str.
Decoded(txt, i, j) ==
    IF EscStart(txt, i, j) THEN <<>>
    ELSE IF Escaped(txt, i, j)
    THEN CASE txt[j] = DQ -> <<DQ>>
           [] txt[j] = BS -> <<BS>>
           [] txt[j] = "n" -> <<NL>>
           [] OTHER -> <<>>
    ELSE IF HexArg(txt, i, j) THEN <<EACUTE>>
    ELSE <<txt[j]>>

\* The atom at place j is allowed in a str that ends before place q: no raw
\* control character, and only the escapes \" \\ \n and \u with its digits.
AllowedInString(txt, i, j, q) ==
    /\ txt[j] # NL
    /\ Escaped(txt, i, j) => txt[j] \in {DQ, BS, "n", "u"}
    /\ (Escaped(txt, i, j) /\ txt[j] = "u") => (j + 1 < q /\ txt[j + 1] = HexOfEACUTE)

\* The str whose opening quote is just before place i: it runs to the first
\* double quote that no backslash escapes.
ScanString(txt, i) ==
    LET Closes(j) == txt[j] = DQ /\ ~Escaped(txt, i, j)
    IN IF ~\E j \in i..Len(txt) : Closes(j) THEN Fail
       ELSE With(CHOOSE j \in i..Len(txt) : Closes(j) /\ \A k \in i..(j - 1) : ~Closes(k),
                 LAMBDA q :
                    IF \E j \in i..(q - 1) : ~AllowedInString(txt, i, j, q) THEN Fail
                    ELSE Parsed(PyStr(Flatten([k \in 1..(q - i) |->
                                                  Decoded(txt, i, i + k - 1)], 1, q - i)),
                                q + 1))

RECURSIVE ParseValue(_, _), ParseElems(_, _, _), ParseMembers(_, _, _)
\* The value that starts at place i.
ParseValue(txt, i) ==
    IF i > Len(txt) THEN Fail
    ELSE IF txt[i] = DQ THEN ScanString(txt, i + 1)
    ELSE IF txt[i] = "{" THEN
        With(SkipWs(txt, i + 1),
             LAMBDA j : IF j <= Len(txt) /\ txt[j] = "}" THEN Parsed(PyDict(<<>>), j + 1)
                        ELSE ParseMembers(txt, j, <<>>))
    ELSE IF txt[i] = "[" THEN
        With(SkipWs(txt, i + 1),
             LAMBDA j : IF j <= Len(txt) /\ txt[j] = "]" THEN Parsed(PyList(<<>>), j + 1)
                        ELSE ParseElems(txt, j, <<>>))
    ELSE IF txt[i] = "null" THEN Parsed(PyNone, i + 1)
    ELSE IF \E d \in 1..Len(DigitAtoms) : DigitAtoms[d] = txt[i]
    THEN Parsed(PyInt((CHOOSE d \in 1..Len(DigitAtoms) : DigitAtoms[d] = txt[i]) - 1), i + 1)
    ELSE Fail
\* The elements of an array from place i on; items is what was read.
ParseElems(txt, i, items) ==
    With(ParseValue(txt, i),
         LAMBDA v :
            IF ~v.ok THEN Fail
            ELSE With(<<SkipWs(txt, v.pos), Append(items, v.val)>>,
                      LAMBDA e :
                         IF e[1] > Len(txt) THEN Fail
                         ELSE IF txt[e[1]] = "]" THEN Parsed(PyList(e[2]), e[1] + 1)
                         ELSE IF txt[e[1]] = ","
                         THEN With(SkipWs(txt, e[1] + 1),
                                   LAMBDA next : ParseElems(txt, next, e[2]))
                         ELSE Fail))
\* The members of an object from place i on; pairs is what was read. A key
\* given twice keeps its last value.
ParseMembers(txt, i, pairs) ==
    IF i > Len(txt) \/ txt[i] # DQ THEN Fail
    ELSE With(ScanString(txt, i + 1),
              LAMBDA k :
                 IF ~k.ok THEN Fail
                 ELSE With(SkipWs(txt, k.pos),
                           LAMBDA c :
                              IF c > Len(txt) \/ txt[c] # ":" THEN Fail
                              ELSE With(ParseValue(txt, SkipWs(txt, c + 1)),
                                        LAMBDA v :
                                           IF ~v.ok THEN Fail
                                           ELSE With(<<SkipWs(txt, v.pos),
                                                       DictSet(pairs, k.val.s, v.val)>>,
                                                     LAMBDA e :
                                                        IF e[1] > Len(txt) THEN Fail
                                                        ELSE IF txt[e[1]] = "}"
                                                        THEN Parsed(PyDict(e[2]), e[1] + 1)
                                                        ELSE IF txt[e[1]] = ","
                                                        THEN With(SkipWs(txt, e[1] + 1),
                                                                  LAMBDA next :
                                                                     ParseMembers(txt, next, e[2]))
                                                        ELSE Fail))))

\* json.loads(text): one value, with nothing but whitespace around it.
JsonLoads(text) ==
    With(text,
         LAMBDA txt :
            With(ParseValue(txt, SkipWs(txt, 1)),
                 LAMBDA r : IF ~r.ok THEN Fail
                            ELSE IF SkipWs(txt, r.pos) # Len(txt) + 1 THEN Fail
                            ELSE r))

\* The lines of a text file, each with its newline (the last may have none).
ReadLines(text) ==
    With(text,
         LAMBDA file :
            With({i \in 1..Len(file) : file[i] = NL \/ i = Len(file)},
                 LAMBDA ends :
                    LET EndOf(k) == CHOOSE e \in ends : Cardinality({x \in ends : x <= e}) = k
                        StartOf(k) == IF k = 1 THEN 1 ELSE EndOf(k - 1) + 1
                    IN [k \in 1..Cardinality(ends) |-> SubSeq(file, StartOf(k), EndOf(k))]))

(***************************************************************************)
(* The Training Example: create_system_prompt, convert_to_messages_format, *)
(* save_jsonl (prepare_training_data.py) and its reader,                   *)
(* load_validation_data (validate_model.py).                               *)
(***************************************************************************)
\* The ten category names of the dataset, in sorted order.
CategoryNames ==
    <<"account", "billing", "cancellation", "coach", "content", "feedback",
      "membership", "password", "scheduling", "technical">>

\* sorted(categories), for a set of category names.
SortedNames(categories) == SelectSeq(CategoryNames, LAMBDA n : n \in categories)

RECURSIVE JoinNames(_)
\* ", ".join(names)
JoinNames(names) ==
    IF names = <<>> THEN <<>>
    ELSE IF Len(names) = 1 THEN <<names[1]>>
    ELSE <<names[1], ", ">> \o JoinNames(Tail(names))

create_system_prompt(categories) ==
    <<"You are a support ticket classifier for a coaching company. ",
      "Classify tickets into one of these categories: ">>
    \o JoinNames(SortedNames(categories))
    \o <<". ",
         "Generate a polite, concise, and helpful response addressing the ticket. ",
         "Always respond in valid JSON format with exactly two keys: ",
         DQ, "category", DQ, " (one of the categories above) and ",
         DQ, "response", DQ, " (your helpful reply).", " ",
         "Example: ", "{", DQ, "category", DQ, ": ", DQ, "billing", DQ, ", ",
         DQ, "response", DQ, ": ", DQ, "I apologize for the issue...", DQ, "}">>

Message(role, content) ==
    PyDict(<<Item(<<"role">>, PyStr(<<role>>)), Item(<<"content">>, content)>>)

\* The row as the three-turn exchange; the third turn's content is the JSON
\* text of the category and the answer.
convert_to_messages_format(row, system_prompt) ==
    LET assistant_content ==
            JsonDumps(PyDict(<<Item(<<"category">>, row.category),
                               Item(<<"response">>, row.answer)>>))
    IN PyDict(<<Item(<<"messages">>,
                     PyList(<<Message("system", PyStr(system_prompt)),
                              Message("user", row.ticket_text),
                              Message("assistant", PyStr(assistant_content))>>))>>)

RECURSIVE save_jsonl(_, _)
\* The text written: one line per row, json.dumps(...) + '\n'.
save_jsonl(data, system_prompt) ==
    IF data = <<>> THEN <<>>
    ELSE JsonDumps(convert_to_messages_format(Head(data), system_prompt)) \o <<NL>>
         \o save_jsonl(Tail(data), system_prompt)

\* Lines 50-65 of validate_model.py, for one line of the file: the example,
\* or the exception the line raises.
\*   data = json.loads(line); messages = data['messages']
\*   ticket_text = messages[1]['content']
\*   assistant_content = json.loads(messages[2]['content'])
\*   expected_category = assistant_content['category']
\*   expected_response = assistant_content['response']
LoadLine(line) ==
    With(JsonLoads(line), LAMBDA data :
    IF ~data.ok THEN Raise("JSONDecodeError")
    ELSE With(PyGetKey(data.val, <<"messages">>), LAMBDA messages :
    IF messages.exc # "" THEN messages
    ELSE With(PyGetIndex(messages.val, 1), LAMBDA m1 :
    IF m1.exc # "" THEN m1
    ELSE With(PyGetKey(m1.val, <<"content">>), LAMBDA ticket_text :
    IF ticket_text.exc # "" THEN ticket_text
    ELSE With(PyGetIndex(messages.val, 2), LAMBDA m2 :
    IF m2.exc # "" THEN m2
    ELSE With(PyGetKey(m2.val, <<"content">>), LAMBDA content :
    IF content.exc # "" THEN content
    ELSE IF content.val.t # "str" THEN Raise("TypeError")
    ELSE With(JsonLoads(content.val.s), LAMBDA assistant_content :
    IF ~assistant_content.ok THEN Raise("JSONDecodeError")
    ELSE With(PyGetKey(assistant_content.val, <<"category">>), LAMBDA expected_category :
    IF expected_category.exc # "" THEN expected_category
    ELSE With(PyGetKey(assistant_content.val, <<"response">>), LAMBDA expected_response :
    IF expected_response.exc # "" THEN expected_response
    ELSE Ret([ticket_text |-> ticket_text.val,
              expected_category |-> expected_category.val,
              expected_response |-> expected_response.val]))))))))))

RECURSIVE LoadLines(_, _)
\* The loop of lines 49-65: the list of examples, or the first exception.
LoadLines(todo, examples) ==
    IF todo = <<>> THEN Ret(examples)
    ELSE With(LoadLine(Head(todo)),
              LAMBDA e : IF e.exc # "" THEN e
                         ELSE With(<<Tail(todo), Append(examples, e.val)>>,
                                   LAMBDA rest : LoadLines(rest[1], rest[2])))

\* load_validation_data on a validation file that exists.
load_validation_data(file) ==
    With(ReadLines(file), LAMBDA todo : LoadLines(todo, <<>>))

(***************************************************************************)
(* The round trip: save_jsonl, then load_validation_data.                  *)
(***************************************************************************)
RawAtoms == {"n", DQ, BS, NL, EACUTE}

StrsOfLen(k) == [1..k -> RawAtoms]

\* Every Raw Record whose three strings have at most MaxChars atoms together.
RawRecords ==
    UNION {{[ticket_text |-> PyStr(t), category |-> PyStr(c), answer |-> PyStr(a)] :
                t \in StrsOfLen(l[1]), c \in StrsOfLen(l[2]), a \in StrsOfLen(l[3])}
           : l \in {m \in [1..3 -> 0..MaxChars] : m[1] + m[2] + m[3] <= MaxChars}}

PlainRecord ==
    [ticket_text |-> PyStr(<<"I was charged twice">>), category |-> PyStr(<<"billing">>),
     answer |-> PyStr(<<"We will refund you">>)]

\* The lists handed to save_jsonl: a record alone, before and after another.
RoundTripInputs ==
    {<<r>> : r \in RawRecords} \cup {<<r, PlainRecord>> : r \in RawRecords}
    \cup {<<PlainRecord, r>> : r \in RawRecords}

RtSystemPrompt == create_system_prompt(Range(CategoryNames))

RtInit ==
    /\ rt_pc = "start"
    /\ rt_data \in RoundTripInputs
    /\ rt_file = <<>>
    /\ rt_loaded = Raise("unset")

RtIdle ==
    /\ rt_pc = "idle"
    /\ rt_data = <<>>
    /\ rt_file = <<>>
    /\ rt_loaded = Raise("unset")

\* prepare_training_data.py writes the file.
RtSave ==
    /\ rt_pc = "start"
    /\ rt_file' = save_jsonl(rt_data, RtSystemPrompt)
    /\ rt_pc' = "saved"
    /\ UNCHANGED <<rt_data, rt_loaded, notRtVars>>

\* validate_model.py reads it back.
RtLoad ==
    /\ rt_pc = "saved"
    /\ rt_loaded' = load_validation_data(rt_file)
    /\ rt_pc' = "loaded"
    /\ UNCHANGED <<rt_data, rt_file, notRtVars>>

\* C9: a row serialized by convert_to_messages_format / save_jsonl and read
\* back by load_validation_data gives ticket_text, expected_category and
\* expected_response equal to the row's ticket_text, category and answer, for
\* every row of the file, in the order of the file.
C9_RoundTrip ==
    rt_pc = "loaded" =>
        /\ rt_loaded.exc = ""
        /\ Len(rt_loaded.val) = Len(rt_data)
        /\ \A i \in 1..Len(rt_data) :
             /\ rt_loaded.val[i].ticket_text = rt_data[i].ticket_text
             /\ rt_loaded.val[i].expected_category = rt_data[i].category
             /\ rt_loaded.val[i].expected_response = rt_data[i].answer

\* A row whose text is a backslash and the letter n (which a reader must not
\* take for a newline) has been read back, and the row after it.
C9_Witness ==
    /\ rt_pc = "loaded"
    /\ rt_loaded.exc = ""
    /\ Len(rt_data) = 2
    /\ rt_data[1].ticket_text = PyStr(<<BS, "n">>)
    /\ rt_loaded.val[1].ticket_text = PyStr(<<BS, "n">>)
    /\ rt_loaded.val[2].expected_response = PlainRecord.answer

(***************************************************************************)
(* The Splitter: stratified_split.                                         *)
(***************************************************************************)

\* The dataset of the docstring: 50 rows, 5 of each category.
RefTotal == 50
RefPerCat == 5
RefCats == RefTotal \div RefPerCat
RefDataset ==
    [i \in 1..(RefCats * RefPerCat) |-> [row |-> i, category |-> ((i - 1) % RefCats) + 1]]

\* Every dataset of at most MaxRows rows over MaxCats categories. A row is a
\* Raw Record: its category is present. The row number stands for the
\* remaining fields of the row.
SmallDatasets ==
    UNION {{[i \in 1..n |-> [row |-> i, category |-> f[i]]] : f \in [1..n -> 1..MaxCats]}
           : n \in 0..MaxRows}

Datasets == SmallDatasets \cup {RefDataset}

\* The split point rounded up instead of down.
NTrainCeil(n) == (8 * n + 9) \div 10
\* n_train = int(len(examples) * train_ratio) with train_ratio = 0.8. The
\* double product n * 0.8 truncates to floor(8n / 10) for every n below 2 * 10^6
\* (0.8 is rounded up to the next double, and 8n / 10 is an integer or at least
\* 1/10 away from one).
NTrain(n) == (8 * n) \div 10

\* random.shuffle(examples) under the module's seeded generator permutes the
\* list; which permutation it is depends on the generator's state, which is
\* not modelled: every permutation is explored for an enumerated dataset, and
\* the identity and the reversal for the 50-row dataset of the docstring.
Shuffles(data, n) ==
    IF data = RefDataset
    THEN {[i \in 1..n |-> i], [i \in 1..n |-> n + 1 - i]}
    ELSE Perms(n)

\* df.groupby('category'): the groups in ascending order of their key.
GroupKeys(data) == SortedSeq({data[i].category : i \in 1..Len(data)})

\* group.to_dict('records'): the rows of the group, in the dataset's order.
GroupRecords(data, category) == SelectSeq(data, LAMBDA r : r.category = category)

SplitInit ==
    /\ df \in Datasets
    /\ split_pc = "start"
    /\ grouped = <<>>
    /\ train_data = <<>>
    /\ val_data = <<>>

SplitIdle ==
    /\ df = <<>>
    /\ split_pc = "idle"
    /\ grouped = <<>>
    /\ train_data = <<>>
    /\ val_data = <<>>

\* Lines 79-83: the empty result lists and the group-by.
SplitStart ==
    /\ split_pc = "start"
    /\ grouped' = GroupKeys(df)
    /\ train_data' = <<>>
    /\ val_data' = <<>>
    /\ split_pc' = "loop"
    /\ UNCHANGED <<df, notSplitVars>>

\* Lines 85-98: one iteration of the loop over the groups.
SplitGroup ==
    /\ split_pc = "loop"
    /\ grouped # <<>>
    /\ LET category == Head(grouped)
           examples == GroupRecords(df, category)
           n == Len(examples)
       IN \E p \in Shuffles(df, n) :
            LET shuffled == [i \in 1..n |-> examples[p[i]]]
                n_train == NTrain(n)
            IN /\ train_data' = train_data \o SubSeq(shuffled, 1, n_train)
               /\ val_data' = val_data \o SubSeq(shuffled, n_train + 1, n)
    /\ grouped' = Tail(grouped)
    /\ UNCHANGED <<df, split_pc, notSplitVars>>

\* Line 100: the loop is over, return train_data, val_data.
SplitReturn ==
    /\ split_pc = "loop"
    /\ grouped = <<>>
    /\ split_pc' = "returned"
    /\ UNCHANGED <<df, grouped, train_data, val_data, notSplitVars>>

(***************************************************************************)
(* Claims about the Splitter.                                              *)
(***************************************************************************)
CountCat(s, c) == Cardinality({i \in 1..Len(s) : s[i].category = c})

\* floor(0.8 n), stated without the division: the k with 5k <= 4n < 5(k + 1).
IsFloor80(k, n) == 5 * k <= 4 * n /\ 4 * n < 5 * (k + 1)

\* C1: when stratified_split returns, every category with n rows has exactly
\* floor(0.8 n) of its rows in the train group and the other n - floor(0.8 n)
\* in the validation group, and every row of the dataset is in exactly one
\* place of the two groups together (no loss, no overlap, no duplicate); the
\* dataset of 10 categories with 5 rows each gives 40 train and 10 validation
\* rows, 4 and 1 per category.
C1_StratifiedSplit ==
    split_pc = "returned" =>
        LET both == train_data \o val_data
        IN /\ \A c \in {df[i].category : i \in 1..Len(df)} :
                /\ IsFloor80(CountCat(train_data, c), CountCat(df, c))
                /\ CountCat(val_data, c) = CountCat(df, c) - CountCat(train_data, c)
           /\ \A i \in 1..Len(df) :
                Cardinality({j \in 1..Len(both) : both[j] = df[i]}) = 1
           /\ Len(both) = Len(df)
           /\ df = RefDataset =>
                /\ Len(train_data) = 40
                /\ Len(val_data) = 10
                /\ \A c \in 1..RefCats :
                     CountCat(train_data, c) = 4 /\ CountCat(val_data, c) = 1

\* The 50-row dataset has been split.
C1_Witness ==
    /\ split_pc = "returned"
    /\ df = RefDataset
    /\ Len(train_data) = 40
    /\ Len(val_data) = 10

(***************************************************************************)
(* validate_jsonl (prepare_training_data.py).                              *)
(***************************************************************************)
\* [msg['role'] for msg in messages]: the list of roles, or the first
\* exception of the comprehension.
RolesOf(messages) ==
    With([i \in 1..Len(PyIter(messages)) |-> PyGetKey(PyIter(messages)[i], <<"role">>)],
         LAMBDA got :
            IF \E i \in 1..Len(got) : got[i].exc # ""
            THEN got[CHOOSE i \in 1..Len(got) :
                        got[i].exc # "" /\ \A j \in 1..(i - 1) : got[j].exc = ""]
            ELSE Ret([i \in 1..Len(got) |-> got[i].val]))

expected_roles == <<PyStr(<<"system">>), PyStr(<<"user">>), PyStr(<<"assistant">>)>>

\* Lines 135-138: "" when the third turn's content passes, else the name of
\* the exception raised.
\*   assistant_content = messages[2]['content']
\*   assistant_json = json.loads(assistant_content)
\*   if 'category' not in assistant_json or 'response' not in assistant_json:
\*       raise ValueError(...)
CheckContent(messages) ==
    With(PyGetIndex(messages, 2), LAMBDA m2 :
    IF m2.exc # "" THEN m2.exc
    ELSE With(PyGetKey(m2.val, <<"content">>), LAMBDA assistant_content :
    IF assistant_content.exc # "" THEN assistant_content.exc
    ELSE IF assistant_content.val.t # "str" THEN "TypeError"
    ELSE With(JsonLoads(assistant_content.val.s), LAMBDA assistant_json :
    IF ~assistant_json.ok THEN "JSONDecodeError"
    ELSE With(PyContains(assistant_json.val, "category"), LAMBDA has_category :
    IF has_category.exc # "" THEN has_category.exc
    ELSE IF ~has_category.val THEN "ValueError"
    ELSE With(PyContains(assistant_json.val, "response"), LAMBDA has_response :
    IF has_response.exc # "" THEN has_response.exc
    ELSE IF ~has_response.val THEN "ValueError"
    ELSE "")))))

\* Lines 123-138, the body of the try for one line: "" when the line passes,
\* else the name of the exception raised.
\*   data = json.loads(line)
\*   if 'messages' not in data: raise ValueError(...)
\*   messages = data['messages']
\*   if len(messages) != 3: raise ValueError(...)
\*   actual_roles = [msg['role'] for msg in messages]
\*   if actual_roles != expected_roles: raise ValueError(...)
CheckLine(line) ==
    With(JsonLoads(line), LAMBDA data :
    IF ~data.ok THEN "JSONDecodeError"
    ELSE With(PyContains(data.val, "messages"), LAMBDA has_messages :
    IF has_messages.exc # "" THEN has_messages.exc
    ELSE IF ~has_messages.val THEN "ValueError"
    ELSE With(PyGetKey(data.val, <<"messages">>), LAMBDA messages :
    IF messages.exc # "" THEN messages.exc
    ELSE With(PyLen(messages.val), LAMBDA n :
    IF n.exc # "" THEN n.exc
    ELSE IF n.val # 3 THEN "ValueError"
    ELSE With(RolesOf(messages.val), LAMBDA actual_roles :
    IF actual_roles.exc # "" THEN actual_roles.exc
    ELSE IF actual_roles.val # expected_roles THEN "ValueError"
    ELSE CheckContent(messages.val))))))

\* Lines 146-151: the exceptions the try catches.
Caught == {"JSONDecodeError", "ValueError"}

\* The lines a file under validation is made of.
ShortPrompt == PyStr(<<"You are a support ticket classifier.">>)
GoodTurns ==
    convert_to_messages_format(PlainRecord, ShortPrompt.s).pairs[1].v.items
Target(content) == Message("assistant", content)
Exchange(turns) == PyDict(<<Item(<<"messages">>, PyList(turns))>>)
WithTarget(content) == Exchange(<<GoodTurns[1], GoodTurns[2], Target(content)>>)
Category == Item(<<"category">>, PlainRecord.category)
Response == Item(<<"response">>, PlainRecord.answer)

GoodLine == JsonDumps(Exchange(GoodTurns))
LineShapes ==
    {GoodLine,
     \* not JSON at all
     <<"not json">>,
     \* JSON that is no object
     JsonDumps(PyInt(5)),
     JsonDumps(PyNone),
     JsonDumps(PyStr(<<"messages">>)),
     JsonDumps(PyList(<<PyStr(<<"messages">>)>>)),
     \* an object without 'messages', or whose 'messages' is no list of three
     JsonDumps(PyDict(<<>>)),
     JsonDumps(PyDict(<<Item(<<"messages">>, PyInt(3))>>)),
     JsonDumps(Exchange(<<GoodTurns[1], GoodTurns[2]>>)),
     JsonDumps(Exchange(<<GoodTurns[1], GoodTurns[2], GoodTurns[3], GoodTurns[3]>>)),
     \* three turns with other roles, or without a role
     JsonDumps(Exchange(<<GoodTurns[2], GoodTurns[1], GoodTurns[3]>>)),
     JsonDumps(Exchange(<<GoodTurns[1], PyDict(<<Item(<<"content">>, PyStr(<<"hi">>))>>),
                          GoodTurns[3]>>)),
     JsonDumps(Exchange(<<GoodTurns[1], PyStr(<<"user">>), GoodTurns[3]>>)),
     \* a third turn without content, or whose content is no text
     JsonDumps(Exchange(<<GoodTurns[1], GoodTurns[2],
                          PyDict(<<Item(<<"role">>, PyStr(<<"assistant">>))>>)>>)),
     JsonDumps(WithTarget(PyInt(5))),
     \* a third turn whose content is not JSON
     JsonDumps(WithTarget(PyStr(<<"billing">>))),
     \* a third turn whose content is an object without one of the two keys
     JsonDumps(WithTarget(PyStr(JsonDumps(PyDict(<<Response>>))))),
     JsonDumps(WithTarget(PyStr(JsonDumps(PyDict(<<Category>>))))),
     \* a third turn whose content is JSON but no object
     JsonDumps(WithTarget(PyStr(JsonDumps(PyInt(5))))),
     JsonDumps(WithTarget(PyStr(JsonDumps(PyNone)))),
     JsonDumps(WithTarget(PyStr(JsonDumps(PyStr(<<"category", " and ", "response">>))))),
     JsonDumps(WithTarget(PyStr(JsonDumps(PyList(<<PyStr(<<"category">>),
                                                  PyStr(<<"response">>)>>)))))}

\* Every file of at most MaxFileLines lines, each ended by a newline.
Files(n) ==
    {Flatten([i \in 1..n |-> f[i] \o <<NL>>], 1, n) : f \in [1..n -> LineShapes]}
ValidatedFiles == UNION {Files(n) : n \in 0..MaxFileLines}

VjInit ==
    /\ vj_pc = "start"
    /\ vj_file \in ValidatedFiles
    /\ lines = <<>>
    /\ vj_i = 0
    /\ vj_result = Raise("unset")
    /\ vj_printed = <<>>

VjIdle ==
    /\ vj_pc = "idle"
    /\ vj_file = <<>>
    /\ lines = <<>>
    /\ vj_i = 0
    /\ vj_result = Raise("unset")
    /\ vj_printed = <<>>

\* Lines 118-119: lines = f.readlines().
VjReadLines ==
    /\ vj_pc = "start"
    /\ lines' = ReadLines(vj_file)
    /\ vj_i' = 1
    /\ vj_pc' = "loop"
    /\ UNCHANGED <<vj_file, vj_result, vj_printed, notVjVars>>

\* Lines 121-151: one iteration of the loop. A line that passes lets the loop
\* go on; JSONDecodeError and ValueError are caught, the line is reported and
\* False returned; any other exception leaves the function.
VjLine ==
    /\ vj_pc = "loop"
    /\ vj_i <= Len(lines)
    /\ \E raised \in {CheckLine(lines[vj_i])} :
          IF raised = ""
          THEN /\ vj_i' = vj_i + 1
               /\ UNCHANGED <<vj_pc, vj_result, vj_printed>>
          ELSE IF raised \in Caught
          THEN /\ vj_printed' = Append(vj_printed, vj_i)
               /\ vj_result' = Ret(FALSE)
               /\ vj_pc' = "returned"
               /\ UNCHANGED vj_i
          ELSE /\ vj_result' = Raise(raised)
               /\ vj_pc' = "raised"
               /\ UNCHANGED <<vj_i, vj_printed>>
    /\ UNCHANGED <<vj_file, lines, notVjVars>>

\* Lines 153-154: every line passed.
VjReturnTrue ==
    /\ vj_pc = "loop"
    /\ vj_i > Len(lines)
    /\ vj_result' = Ret(TRUE)
    /\ vj_pc' = "returned"
    /\ UNCHANGED <<vj_file, lines, vj_i, vj_printed, notVjVars>>

(***************************************************************************)
(* Claims about validate_jsonl.                                            *)
(***************************************************************************)
IsDictWith(v, keys) == v.t = "dict" /\ \A k \in keys : HasKey(v, <<k>>)

\* The rules of a training file, read off a parsed line: three turns under
\* 'messages' with the roles system, user, assistant in that order.
ThreeTurns(v) ==
    /\ IsDictWith(v, {"messages"})
    /\ DictValue(v, <<"messages">>).t = "list"
    /\ Len(DictValue(v, <<"messages">>).items) = 3
    /\ \A i \in 1..3 :
         /\ IsDictWith(DictValue(v, <<"messages">>).items[i], {"role"})
         /\ DictValue(DictValue(v, <<"messages">>).items[i], <<"role">>) = expected_roles[i]

\* ... and the third turn's content is the text of an object that has both
\* 'category' and 'response'.
TargetHasBoth(v) ==
    /\ IsDictWith(DictValue(v, <<"messages">>).items[3], {"content"})
    /\ DictValue(DictValue(v, <<"messages">>).items[3], <<"content">>).t = "str"
    /\ With(JsonLoads(DictValue(DictValue(v, <<"messages">>).items[3], <<"content">>).s),
            LAMBDA target : target.ok /\ IsDictWith(target.val, {"category", "response"}))

WellFormedLine(line) ==
    With(JsonLoads(line),
         LAMBDA data : data.ok /\ ThreeTurns(data.val) /\ TargetHasBoth(data.val))

BadLines == {i \in 1..Len(lines) : ~WellFormedLine(lines[i])}

\* C8: validate_jsonl returns True only for a file whose every line keeps the
\* rules, and for a file with a line that breaks one it returns False,
\* reporting the number of the first such line, and does not raise.
C8_AllOrNothing ==
    vj_pc \in {"returned", "raised"} =>
        IF BadLines = {}
        THEN vj_result = Ret(TRUE)
        ELSE /\ vj_result = Ret(FALSE)
             /\ vj_printed = <<CHOOSE i \in BadLines : \A j \in BadLines : i <= j>>

(***************************************************************************)
(* The Job Driver: fine_tune.py.                                           *)
(***************************************************************************)
\* bool(v) of a str or None.
Truthy(v) == v.t = "str" /\ v.s # <<>>

\* s.startswith(prefix), on sequences of characters.
StartsWith(s, prefix) == Len(s) >= Len(prefix) /\ SubSeq(s, 1, Len(prefix)) = prefix

\* s.lower(), on sequences of characters.
Lower(s) == [i \in 1..Len(s) |-> IF s[i] = "Y" THEN "y" ELSE IF s[i] = "N" THEN "n" ELSE s[i]]

KeyPrefix == <<"s", "k", "-">>

\* check_api_key with a key of another prefix let through.
check_api_key_lenient(key) == Truthy(key)
\* check_api_key, lines 19-36: its return value for the key os.getenv gave.
check_api_key(key) ==
    IF ~Truthy(key) THEN FALSE
    ELSE IF ~StartsWith(key.s, KeyPrefix) THEN FALSE
    ELSE TRUE

\* The first word of what check_api_key prints (lines 24, 32, 35).
KeyMessage(key) ==
    IF ~Truthy(key) THEN "Error"
    ELSE IF ~StartsWith(key.s, KeyPrefix) THEN "Warning"
    ELSE "found"

\* The statuses of a fine-tuning job.
NonTerminal == {"validating_files", "queued", "running"}
Terminal == {"succeeded", "failed", "cancelled"}
Statuses == NonTerminal \cup Terminal

NoStatus == "None"

NewModel == PyStr(<<"ft:gpt-3.5-turbo:acme::9abc">>)
OldModel == PyStr(<<"ft:gpt-3.5-turbo:acme::8old">>)
\* The fine_tuned_model field of a job: null while the job runs.
FineTunedModels(status) ==
    IF status \in NonTerminal THEN {PyNone} ELSE {PyNone, PyStr(<<>>), NewModel}

NoJob == [status |-> NoStatus, fine_tuned_model |-> PyNone]

\* Line 105 with the comparison dropped: a line at every check.
StatusAlwaysPrinted(status, last) == TRUE
\* Line 105: job.status != last_status.
StatusChanged(status, last) == status # last

\* Lines 117-137 with a return at succeeded only.
MonitorReturnsOnlySucceeded(status) == status = "succeeded"
\* Lines 117-137 without the branch of 'cancelled'.
MonitorReturnsUnlessCancelled(status) == status \in {"succeeded", "failed"}
\* Lines 117-137: the statuses at which the loop returns.
MonitorReturns(status) == status \in {"succeeded", "failed", "cancelled"}

\* Lines 127-137 returning the model of any finished job.
MonitorResultOfAny(j) == j.fine_tuned_model
\* Lines 127, 133, 137: what the monitor returns at a status it returns at.
MonitorResult(j) ==
    IF j.status = "succeeded" THEN j.fine_tuned_model ELSE PyNone

\* Line 233 as a test for None: if model_id is not None.
ShouldSaveUnlessNone(m) == m # PyNone
\* Line 233 taken whatever the monitor returned.
ShouldSaveAlways(m) == TRUE
\* Line 233: if model_id.
ShouldSave(m) == Truthy(m)

\* The metadata of lines 158-169 (the time of day left out).
Metadata(m) ==
    [model_id |-> m, base_model |-> "gpt-3.5-turbo",
     training_examples |-> 40, validation_examples |-> 10,
     hyperparameters |-> [n_epochs |-> 3, batch_size |-> 1]]

Event(name) == [ev |-> name]
StatusLine(n, status) == [ev |-> "status", poll |-> n, status |-> status]
\* client.fine_tuning.jobs.create(training_file=...), lines 77-81.
Create(training_file_id_) == [ev |-> "create", training_file |-> training_file_id_]
\* response.id of an upload or a job creation, lines 59 and 87.
Returned(call, id) == [ev |-> "returned", call |-> call, id |-> id]
\* The identifiers the provider may give a file and a job.
FileIds == {PyStr(<<"file-abc">>), PyStr(<<"file-xyz">>)}
JobIds == {PyStr(<<"ftjob-abc">>), PyStr(<<"ftjob-xyz">>)}

\* time.sleep(secs).
Sleep(secs) == [ev |-> "sleep", secs |-> secs]
\* input(...) at line 218, with what the operator typed.
Prompt(response) == [ev |-> "prompt", answer |-> response]

\* Line 143: the seconds between two checks.
PollInterval == 60

\* Line 207 with the test dropped.
MissingTrainingFileIgnored(exists) == FALSE
\* Line 207: if not training_file.exists().
MissingTrainingFile(exists) == ~exists

\* Line 219 with only the answer n taken as a refusal.
DeclinedOnlyN(response) == response = <<"n">>
\* Line 219: if response.lower() != 'y'.
Declined(response) == Lower(response) # <<"y">>

\* What a failed write of the metadata leaves of the model id file, were the
\* first write taken back.
AfterFailedSaveRemoved(written) == PyNone
\* Lines 171-172 and 251-255: nothing takes back the model id file when the
\* metadata write raises; the except clause prints and returns.
AfterFailedSave(written) == written

\* Every credential of at most MaxKeyLen characters, and none.
KeyChars == {"s", "k", "-"}
ApiKeys ==
    {PyNone} \cup {PyStr(k) : k \in UNION {[1..n -> KeyChars] : n \in 0..MaxKeyLen}}

\* What the operator may type at the prompt.
Answers == {<<"y">>, <<"Y">>, <<"n">>, <<"y", "e", "s">>, <<>>}

DrvInit ==
    /\ drv_pc = "check_key"
    /\ api_key \in ApiKeys
    /\ training_file \in BOOLEAN
    /\ training_file_id = PyNone
    /\ job_id = PyNone
    /\ remote = NoJob
    /\ job = NoJob
    /\ last_status = NoStatus
    /\ check_count = 0
    /\ observed = <<>>
    /\ model_id = PyNone
    /\ \E old \in {PyNone, OldModel} :
         /\ id_file = old
         /\ meta_file = IF old = PyNone THEN PyNone ELSE Metadata(old)
    /\ drv_log = <<>>
    /\ drv_exit = PyNone

DrvIdle ==
    /\ drv_pc = "idle"
    /\ api_key = PyNone
    /\ training_file = FALSE
    /\ training_file_id = PyNone
    /\ job_id = PyNone
    /\ remote = NoJob
    /\ job = NoJob
    /\ last_status = NoStatus
    /\ check_count = 0
    /\ observed = <<>>
    /\ model_id = PyNone
    /\ id_file = PyNone
    /\ meta_file = PyNone
    /\ drv_log = <<>>
    /\ drv_exit = PyNone

\* return n from main.
DrvReturn(n, events) ==
    /\ drv_exit' = PyInt(n)
    /\ drv_pc' = "done"
    /\ drv_log' = drv_log \o events

\* Go on to the next step of main.
DrvGoto(step, events) ==
    /\ drv_pc' = step
    /\ drv_log' = drv_log \o events
    /\ UNCHANGED drv_exit

\* The except clause with the failed step tried again.
DrvExceptRetry(step, events) == DrvGoto(step, events \o <<Event("exception")>>)
\* Lines 251-255: an exception of the step is caught, printed with its trace,
\* and main returns 1.
DrvExcept(step, events) == DrvReturn(1, events \o <<Event("exception")>>)

\* Lines 195-197: if not check_api_key(): return 1.
DrvCheckKey ==
    /\ drv_pc = "check_key"
    /\ IF check_api_key(api_key)
       THEN DrvGoto("check_file", <<Event(KeyMessage(api_key))>>)
       ELSE DrvReturn(1, <<Event(KeyMessage(api_key))>>)
    /\ UNCHANGED <<api_key, training_file, training_file_id, job_id, remote, job,
                   last_status, check_count, observed, model_id, id_file, meta_file,
                   notDrvVars>>

\* Lines 206-211: the training file must exist.
DrvCheckFile ==
    /\ drv_pc = "check_file"
    /\ IF MissingTrainingFile(training_file)
       THEN DrvReturn(1, <<Event("file not found")>>)
       ELSE DrvGoto("estimate", <<>>)
    /\ UNCHANGED <<api_key, training_file, training_file_id, job_id, remote, job,
                   last_status, check_count, observed, model_id, id_file, meta_file,
                   notDrvVars>>

\* Line 214: estimate_cost().
DrvEstimate ==
    /\ drv_pc = "estimate"
    /\ DrvGoto("confirm", <<Event("estimate")>>)
    /\ UNCHANGED <<api_key, training_file, training_file_id, job_id, remote, job,
                   last_status, check_count, observed, model_id, id_file, meta_file,
                   notDrvVars>>

\* Lines 217-221: the prompt; any answer but y or Y ends the run with 0.
DrvConfirm ==
    /\ drv_pc = "confirm"
    /\ \E response \in Answers :
         IF Declined(response)
         THEN DrvReturn(0, <<Prompt(response), Event("cancelled by operator")>>)
         ELSE DrvGoto("upload", <<Prompt(response)>>)
    /\ UNCHANGED <<api_key, training_file, training_file_id, job_id, remote, job,
                   last_status, check_count, observed, model_id, id_file, meta_file,
                   notDrvVars>>

\* Line 225, upload_training_file: the request returns a file id, printed at
\* line 56, or raises, and an exception is caught at line 251.
DrvUpload ==
    /\ drv_pc = "upload"
    /\ \/ /\ DrvExcept("upload", <<Event("upload")>>)
          /\ UNCHANGED training_file_id
       \/ \E id \in FileIds :
             /\ training_file_id' = id
             /\ DrvGoto("create", <<Event("upload"), Returned("upload", id)>>)
    /\ UNCHANGED <<api_key, training_file, job_id, remote, job, last_status,
                   check_count, observed, model_id, id_file, meta_file, notDrvVars>>

\* Line 228, create_fine_tuning_job: the request, made with the file id of
\* the upload, returns a job id, printed at line 84, or raises.
\* Lines 95-96: the monitor starts with no status seen and no check made.
DrvCreate ==
    /\ drv_pc = "create"
    /\ \/ /\ DrvExcept("create", <<Create(training_file_id)>>)
          /\ UNCHANGED <<remote, job_id>>
       \/ \E id \in JobIds :
             /\ job_id' = id
             /\ DrvGoto("poll", <<Create(training_file_id), Returned("create", id)>>)
             /\ remote' = [status |-> "validating_files", fine_tuned_model |-> PyNone]
    /\ last_status' = NoStatus
    /\ check_count' = 0
    /\ UNCHANGED <<api_key, training_file, training_file_id, job, observed, model_id,
                   id_file, meta_file, notDrvVars>>

\* The provider moves the job on while it is monitored; a finished job stays
\* as it is.
JobAdvance ==
    /\ drv_pc \in {"poll", "sleep"}
    /\ remote.status \in NonTerminal
    /\ \E status \in Statuses \ {remote.status} :
         \E m \in FineTunedModels(status) :
            remote' = [status |-> status, fine_tuned_model |-> m]
    /\ UNCHANGED <<drv_pc, api_key, training_file, training_file_id, job_id, job, last_status, check_count,
                   observed, model_id, id_file, meta_file, drv_log, drv_exit,
                   notDrvVars>>

\* Lines 98-137: one turn of the loop up to its return or its wait. The
\* model makes check number MaxPolls only of a job that has finished.
DrvPoll ==
    /\ drv_pc = "poll"
    /\ check_count < MaxPolls
    /\ check_count + 1 < MaxPolls \/ remote.status \in Terminal
    /\ check_count' = check_count + 1
    /\ \E raised \in BOOLEAN :
         IF raised
         THEN /\ DrvExcept("poll", <<Event("retrieve")>>)
              /\ UNCHANGED <<job, last_status, observed, model_id>>
         ELSE /\ job' = remote
              /\ observed' = Append(observed, remote.status)
              /\ last_status' =
                    IF StatusChanged(remote.status, last_status)
                    THEN remote.status ELSE last_status
              /\ LET printed ==
                       <<Event("retrieve")>>
                       \o (IF StatusChanged(remote.status, last_status)
                           THEN <<StatusLine(check_count + 1, remote.status)>>
                           ELSE <<>>)
                 IN IF MonitorReturns(remote.status)
                    THEN /\ model_id' = MonitorResult(remote)
                         /\ DrvGoto("returned", printed)
                    ELSE /\ DrvGoto("sleep", printed)
                         /\ UNCHANGED model_id
    /\ UNCHANGED <<api_key, training_file, training_file_id, job_id, remote, id_file, meta_file, notDrvVars>>

\* Lines 140-143: time.sleep(60), then the next turn of the loop.
DrvSleep ==
    /\ drv_pc = "sleep"
    /\ DrvGoto("poll", <<Sleep(PollInterval)>>)
    /\ UNCHANGED <<api_key, training_file, training_file_id, job_id, remote, job,
                   last_status, check_count, observed, model_id, id_file, meta_file,
                   notDrvVars>>

\* Lines 233, 247-249: without a model the run ends with 1.
DrvDecide ==
    /\ drv_pc = "returned"
    /\ IF ShouldSave(model_id)
       THEN DrvGoto("write_id", <<>>)
       ELSE DrvReturn(1, <<Event("no model")>>)
    /\ UNCHANGED <<api_key, training_file, training_file_id, job_id, remote, job,
                   last_status, check_count, observed, model_id, id_file, meta_file,
                   notDrvVars>>

\* Lines 147-154: the model id file is opened for writing and written, and
\* line 154 prints that it was saved. The file system may refuse to open it
\* (the file stays as it was) or fail the write (the file is left empty);
\* writing a model id that is no str fails after the file was opened. An
\* exception is caught at line 251.
DrvWriteId ==
    /\ drv_pc = "write_id"
    /\ \/ /\ model_id.t = "str"
          /\ id_file' = model_id
          /\ DrvGoto("write_meta", <<Event("write_id")>>)
       \/ /\ id_file' = PyStr(<<>>)
          /\ DrvExcept("write_id", <<>>)
       \/ /\ model_id.t = "str"
          /\ UNCHANGED id_file
          /\ DrvExcept("write_id", <<>>)
    /\ UNCHANGED <<api_key, training_file, training_file_id, job_id, remote, job, last_status, check_count,
                   observed, model_id, meta_file, notDrvVars>>

\* Lines 156-174 and 237-246: the metadata file is written, line 174 prints
\* that it was saved, and the run ends with 0; or the write fails (the file
\* stays as it was or is left empty) and the exception is caught at line 251.
DrvWriteMeta ==
    /\ drv_pc = "write_meta"
    /\ \/ /\ meta_file' = Metadata(model_id)
          /\ UNCHANGED id_file
          /\ DrvReturn(0, <<Event("write_meta")>>)
       \/ /\ meta_file' \in {meta_file, PyStr(<<>>)}
          /\ id_file' = AfterFailedSave(id_file)
          /\ DrvExcept("write_meta", <<>>)
    /\ UNCHANGED <<api_key, training_file, training_file_id, job_id, remote, job, last_status, check_count,
                   observed, model_id, notDrvVars>>

\* The steps of the run itself, as against those of the provider.
DrvStep ==
    \/ DrvCheckKey \/ DrvCheckFile \/ DrvEstimate \/ DrvConfirm \/ DrvUpload
    \/ DrvCreate \/ DrvPoll \/ DrvSleep \/ DrvDecide \/ DrvWriteId \/ DrvWriteMeta

\* The provider finishes the job.
JobFinish == JobAdvance /\ remote'.status \in Terminal

(***************************************************************************)
(* Claims about the Job Driver.                                            *)
(***************************************************************************)
\* The status lines of the log, in order.
StatusLines == SelectSeq(drv_log, LAMBDA e : e.ev = "status")

\* The checks whose status differs from the status of the check before; the
\* first check is one of them. Each starts a maximal run of equal statuses.
RunStarts == {i \in 1..Len(observed) : i = 1 \/ observed[i] # observed[i - 1]}

ScriptedStatuses == <<"queued", "queued", "running", "succeeded">>

\* C2: the monitor prints a status line at a check exactly when the status
\* that check retrieved differs from the status the check before retrieved
\* (the first check always prints), so there are as many status lines as
\* maximal runs of equal consecutive statuses; the statuses queued, queued,
\* running, succeeded give exactly three status lines.
C2_StatusLinePerChange ==
    /\ {StatusLines[k].poll : k \in 1..Len(StatusLines)} = RunStarts
    /\ Len(StatusLines) = Cardinality(RunStarts)
    /\ \A k \in 1..Len(StatusLines) :
         StatusLines[k].status = observed[StatusLines[k].poll]
    /\ observed = ScriptedStatuses => Len(StatusLines) = 3

\* The scripted statuses have been retrieved and three lines printed.
C2_Witness ==
    /\ observed = ScriptedStatuses
    /\ Len(StatusLines) = 3
    /\ drv_pc = "returned"

\* C3: the monitor returns only at a terminal status; at succeeded it returns
\* the job's fine_tuned_model, at failed or cancelled it returns None; and
\* after a check that retrieved a non-terminal status it has not returned.
C3_MonitorReturn ==
    /\ drv_pc = "returned" =>
         /\ job.status \in Terminal
         /\ job.status = "succeeded" => model_id = job.fine_tuned_model
         /\ job.status \in {"failed", "cancelled"} => model_id = PyNone
    /\ model_id # PyNone => job.status = "succeeded"
    /\ job.status \in NonTerminal => drv_pc \notin {"returned", "write_id", "write_meta"}

\* The monitor has returned the model of a succeeded job.
C3_Witness ==
    /\ drv_pc = "returned"
    /\ job.status = "succeeded"
    /\ job.fine_tuned_model = NewModel
    /\ model_id = NewModel

\* The two model files are as they were before the run.
ModelFilesUntouched ==
    /\ id_file \in {PyNone, OldModel}
    /\ meta_file \in {PyNone, Metadata(OldModel)}
    /\ \A i \in 1..Len(drv_log) : drv_log[i].ev \notin {"write_id", "write_meta"}

\* C4: when the monitored job ends failed or cancelled, main writes neither
\* the model id file nor the metadata file, and returns a non-zero status.
C4_FailedJobSavesNothing ==
    job.status \in {"failed", "cancelled"} =>
        /\ drv_pc \in {"returned", "done"}
        /\ ModelFilesUntouched
        /\ drv_pc = "done" => drv_exit = PyInt(1)

\* A run has ended after its job was cancelled with a model named in the
\* answer.
C4_Witness ==
    /\ drv_pc = "done"
    /\ job.status = "cancelled"
    /\ job.fine_tuned_model = NewModel
    /\ drv_exit = PyInt(1)

Monitoring == drv_pc \in {"poll", "sleep"}
RetrieveRaised ==
    /\ drv_pc = "done"
    /\ Len(drv_log) >= 2
    /\ drv_log[Len(drv_log) - 1] = Event("retrieve")
    /\ drv_log[Len(drv_log)] = Event("exception")

\* C5: the loop has no timeout: the wait only ends in the next check, and a
\* check that retrieves a non-terminal status goes to the wait; when the job
\* becomes terminal at last and every retrieval returns, the monitor returns.
C5_MonitorTerminates ==
    /\ [][drv_pc = "sleep" /\ drv_pc' # "sleep" => drv_pc' = "poll"]_vars
    /\ [][drv_pc = "poll" /\ drv_pc' # "poll" /\ ~RetrieveRaised'
            => IF job'.status \in NonTerminal
               THEN drv_pc' = "sleep" ELSE drv_pc' = "returned"]_vars
    /\ Monitoring ~> (drv_pc = "returned" \/ RetrieveRaised)

\* The monitor has returned at the last check the model allows, after
\* waiting between the checks before.
C5_Witness ==
    /\ drv_pc = "returned"
    /\ check_count = MaxPolls
    /\ Len(SelectSeq(drv_log, LAMBDA e : e.ev = "sleep")) = MaxPolls - 1

PresentWithoutPrefix(key) == Truthy(key) /\ ~StartsWith(key.s, KeyPrefix)

\* C10 as the specification words it: a credential that is present and not
\* empty but does not start with 'sk-' is a soft warning, the run continues
\* past the credential check; only a missing or empty credential aborts.
C10_SoftWarningContinues ==
    (drv_pc # "check_key" /\ PresentWithoutPrefix(api_key)) =>
        /\ drv_log[1] = Event("Warning")
        /\ ~(drv_pc = "done" /\ Len(drv_log) = 1)

\* C10, amended: a credential that is present and not empty but does not
\* start with 'sk-' is reported with a message labelled a warning and aborts
\* the run with exit status 1 before any other step, as a missing or empty
\* credential does (with a message labelled an error); a credential that
\* starts with 'sk-' lets the run go on.
C10_WarningAborts ==
    drv_pc # "check_key" =>
        /\ PresentWithoutPrefix(api_key) =>
             drv_log = <<Event("Warning")>> /\ drv_pc = "done" /\ drv_exit = PyInt(1)
        /\ ~Truthy(api_key) =>
             drv_log = <<Event("Error")>> /\ drv_pc = "done" /\ drv_exit = PyInt(1)
        /\ (Truthy(api_key) /\ StartsWith(api_key.s, KeyPrefix)) =>
             /\ drv_log[1] = Event("found")
             /\ ~(drv_pc = "done" /\ Len(drv_log) = 1)

\* A run has ended at the credential check on a key that starts with "k-".
C10_Witness ==
    /\ drv_pc = "done"
    /\ api_key = PyStr(<<"k", "-", "s">>)
    /\ drv_log = <<Event("Warning")>>
    /\ drv_exit = PyInt(1)

\* The places of the log where an event of this name stands.
Logged(name) == {i \in 1..Len(drv_log) : drv_log[i].ev = name}

\* No request went to the provider and no model file was written.
NothingSubmitted ==
    /\ Logged("upload") = {} /\ Logged("create") = {}
    /\ Logged("retrieve") = {} /\ Logged("sleep") = {}
    /\ remote = NoJob
    /\ ModelFilesUntouched

\* C11: the cost estimate is printed just before the confirmation prompt,
\* and on an answer other than y or Y the run ends with status 0 without an
\* upload, a job creation, a status check or a write of a model file.
C11_DeclineIsNeutral ==
    \A i \in Logged("prompt") :
        /\ i > 1 /\ drv_log[i - 1] = Event("estimate")
        /\ Logged("upload") \cup Logged("create") \cup Logged("retrieve")
              \subseteq {j \in 1..Len(drv_log) : j > i}
        /\ drv_log[i].answer \notin {<<"y">>, <<"Y">>} =>
              /\ drv_pc = "done"
              /\ drv_exit = PyInt(0)
              /\ NothingSubmitted

\* The operator answered yes in full and the run ended with status 0.
C11_Witness ==
    /\ drv_pc = "done"
    /\ drv_exit = PyInt(0)
    /\ \E i \in Logged("prompt") : drv_log[i].answer = <<"y", "e", "s">>
    /\ Logged("estimate") # {}
    /\ id_file = OldModel

\* The request of this name was issued and raised.
CallFailed(name) ==
    \E i \in Logged(name) : i < Len(drv_log) /\ drv_log[i + 1] = Event("exception")

\* C12: an upload or a job creation that raises is fatal and not retried:
\* the failed request was issued once, no later step ran (no creation after
\* a failed upload, no status check after a failed creation), no model file
\* was written, and the run returned 1.
C12_RemoteFailureIsFatal ==
    /\ CallFailed("upload") =>
         /\ drv_pc = "done" /\ drv_exit = PyInt(1)
         /\ Cardinality(Logged("upload")) = 1
         /\ drv_log[Len(drv_log)] = Event("exception")
         /\ Logged("create") = {} /\ Logged("retrieve") = {} /\ Logged("sleep") = {}
         /\ remote = NoJob
         /\ ModelFilesUntouched
    /\ CallFailed("create") =>
         /\ drv_pc = "done" /\ drv_exit = PyInt(1)
         /\ Cardinality(Logged("create")) = 1
         /\ Cardinality(Logged("upload")) = 1
         /\ drv_log[Len(drv_log)] = Event("exception")
         /\ Logged("retrieve") = {} /\ Logged("sleep") = {}
         /\ remote = NoJob
         /\ ModelFilesUntouched

\* The job creation raised after an upload that went through, with the files
\* of an earlier run in place.
C12_Witness ==
    /\ drv_pc = "done"
    /\ CallFailed("create")
    /\ ~CallFailed("upload")
    /\ drv_exit = PyInt(1)
    /\ id_file = OldModel

\* C13: the model id file is written before the metadata file, and a failure
\* of the metadata write does not undo the id write: once the id file was
\* written it holds the model id the monitor returned, to the end of the run,
\* also when the metadata write raised and the run returned 1.
C13_IdWriteSurvives ==
    /\ \A i \in Logged("write_meta") : \E j \in Logged("write_id") : j < i
    /\ meta_file \notin {PyNone, Metadata(OldModel)} => Logged("write_id") # {}
    /\ drv_pc = "write_meta" => Logged("write_id") # {}
    /\ Logged("write_id") # {} =>
         /\ job.status = "succeeded"
         /\ model_id = job.fine_tuned_model
         /\ model_id.t = "str"
         /\ id_file = model_id
    /\ (drv_pc = "done" /\ Logged("write_id") # {} /\ Logged("write_meta") = {}) =>
         /\ drv_exit = PyInt(1)
         /\ drv_log[Len(drv_log)] = Event("exception")

\* The metadata write failed on a file of an earlier run, leaving it empty,
\* after the id of the new model was written.
C13_Witness ==
    /\ drv_pc = "done"
    /\ drv_exit = PyInt(1)
    /\ Logged("write_id") # {}
    /\ Logged("write_meta") = {}
    /\ id_file = NewModel
    /\ meta_file = PyStr(<<>>)

\* C16: without the training file the run returns 1 before the cost
\* estimate, before the prompt and before any request to the provider.
C16_MissingTrainingFileAborts ==
    (~training_file /\ drv_pc \notin {"check_key", "check_file"}) =>
        /\ drv_pc = "done"
        /\ drv_exit = PyInt(1)
        /\ Logged("estimate") = {} /\ Logged("prompt") = {}
        /\ NothingSubmitted

\* A run with a good key ended at the check of the training file.
C16_Witness ==
    /\ ~training_file
    /\ drv_pc = "done"
    /\ drv_exit = PyInt(1)
    /\ drv_log = <<Event("found"), Event("file not found")>>

\* The status checks and the waits of the log, in order.
Cadence == SelectSeq(drv_log, LAMBDA e : e.ev \in {"retrieve", "sleep"})

\* C20: checks and waits alternate, starting with a check, and every wait is
\* of 60 seconds; a wait follows only a check that retrieved a non-terminal
\* status; the first check that retrieves a terminal status is the last
\* check, and no wait follows it.
C20_PollCadence ==
    /\ \A i \in 1..Len(Cadence) :
         Cadence[i] = IF i % 2 = 1 THEN Event("retrieve") ELSE Sleep(60)
    /\ \A k \in 1..Len(observed) :
         /\ 2 * k <= Len(Cadence) => observed[k] \in NonTerminal
         /\ k < Len(observed) => observed[k] \in NonTerminal
    /\ Len(Cadence) \div 2 <= Len(observed)
    /\ (observed # <<>> /\ observed[Len(observed)] \in Terminal) =>
         /\ Len(Cadence) = 2 * Len(observed) - 1
         /\ drv_pc \notin {"poll", "sleep"}
    /\ drv_pc = "sleep" => Len(Cadence) = 2 * Len(observed) - 1
    /\ (drv_pc = "poll" /\ observed # <<>>) => Len(Cadence) = 2 * Len(observed)

\* Three checks, the third of a failed job, with two waits between them.
C20_Witness ==
    /\ drv_pc = "done"
    /\ Len(observed) = 3
    /\ observed[3] = "failed"
    /\ Len(Cadence) = 5
    /\ Cardinality(Logged("sleep")) = 2

\* The steps of main come in order: an upload only after the key was
\* accepted, the training file found and the prompt answered y or Y; a job
\* creation only after an upload returned a file id, and made with that id; a
\* status check only after a creation returned a job id; a write of the model
\* id file only after the monitor returned a non-empty model id of a
\* succeeded job; a succeeded job without a model id writes nothing and the
\* run returns 1.
StepsInOrder ==
    /\ \A i \in Logged("upload") :
         /\ check_api_key(api_key) /\ drv_log[1] = Event("found")
         /\ training_file /\ Logged("file not found") = {}
         /\ \E j \in Logged("prompt") : j < i /\ drv_log[j].answer \in {<<"y">>, <<"Y">>}
    /\ \A i \in Logged("create") :
         /\ i > 2
         /\ drv_log[i - 2] = Event("upload")
         /\ drv_log[i - 1].ev = "returned" /\ drv_log[i - 1].call = "upload"
         /\ drv_log[i - 1].id \in FileIds
         /\ drv_log[i].training_file = drv_log[i - 1].id
    /\ \A i \in Logged("retrieve") :
         \E j \in Logged("returned") :
            /\ j < i /\ j > 1
            /\ drv_log[j].call = "create" /\ drv_log[j].id \in JobIds
            /\ drv_log[j].id = job_id
            /\ drv_log[j - 1].ev = "create"
    /\ (Logged("write_id") # {} \/ id_file \notin {PyNone, OldModel}
        \/ drv_pc \in {"write_id", "write_meta"}) =>
         /\ job.status = "succeeded"
         /\ model_id = job.fine_tuned_model
         /\ model_id.t = "str" /\ model_id.s # <<>>
    /\ (job.status = "succeeded" /\ job.fine_tuned_model \in {PyNone, PyStr(<<>>)}) =>
         /\ drv_pc \in {"returned", "done"}
         /\ ModelFilesUntouched
         /\ drv_pc = "done" => drv_exit = PyInt(1)

\* C23 as the specification words it: the steps come in order, and a run
\* whose monitor returned a non-empty model id of a succeeded job writes the
\* model id file and returns 0.
C23_SavedRunReturnsZero ==
    /\ StepsInOrder
    /\ (drv_pc = "done" /\ job.status = "succeeded" /\ Truthy(model_id)) =>
         drv_exit = PyInt(0)

\* C23, amended: the steps come in order, and a run whose monitor returned a
\* non-empty model id of a succeeded job returns 0 when both writes of
\* save_model_id went through, and 1 when one of them raised.
C23_StepOrder ==
    /\ StepsInOrder
    /\ (drv_pc = "done" /\ job.status = "succeeded" /\ Truthy(model_id)) =>
         /\ drv_exit = PyInt(0) <=>
               (Logged("write_id") # {} /\ Logged("write_meta") # {})
         /\ drv_exit = PyInt(0) =>
               id_file = model_id /\ meta_file = Metadata(model_id)
         /\ drv_exit # PyInt(0) =>
               drv_exit = PyInt(1) /\ drv_log[Len(drv_log)] = Event("exception")

\* A run went through every step with the second file id and job id and
\* ended with 0 over the files of an earlier run.
C23_Witness ==
    /\ drv_pc = "done"
    /\ drv_exit = PyInt(0)
    /\ training_file_id = PyStr(<<"file-xyz">>)
    /\ job_id = PyStr(<<"ftjob-xyz">>)
    /\ id_file = NewModel
    /\ meta_file = Metadata(NewModel)
    /\ Len(observed) = 2

(***************************************************************************)
(* The Scorer: validate_model.py.                                          *)
(***************************************************************************)
RECURSIVE Strip(_)
\* s.strip(): the text without the whitespace at its two ends.
Strip(s) ==
    IF s = <<>> THEN s
    ELSE IF Head(s) \in Whitespace THEN Strip(Tail(s))
    ELSE IF s[Len(s)] \in Whitespace THEN Strip(SubSeq(s, 1, Len(s) - 1))
    ELSE s

\* load_model_id with a model id made up when the file is missing.
load_model_id_or_default(file) ==
    IF file = PyNone THEN NewModel ELSE PyStr(Strip(file.s))
\* load_model_id, lines 22-35: None without the file, else its text stripped.
load_model_id(file) == IF file = PyNone THEN PyNone ELSE PyStr(Strip(file.s))

\* d.get(k) of a dict.
DictGet(d, k) == IF HasKey(d, k) THEN DictValue(d, k) ELSE PyNone

\* An answer of the provider to a classification request: an exception, or
\* the content of the first choice's message.
Raised == [raised |-> TRUE]
Content(c) == [raised |-> FALSE, content |-> c]

\* What classify_ticket returns, with what it printed on the way.
Predicted(category, response, printed) ==
    [exc |-> "", category |-> category, response |-> response, printed |-> printed]

\* classify_ticket with the exceptions of the parse let out of the function.
classify_ticket_unguarded(reply) ==
    IF reply.raised THEN Predicted(PyNone, PyNone, "Error")
    ELSE IF \/ reply.content.t # "str"
            \/ ~JsonLoads(reply.content.s).ok
            \/ JsonLoads(reply.content.s).val.t # "dict"
    THEN Raise("Exception")
    ELSE Predicted(DictGet(JsonLoads(reply.content.s).val, <<"category">>),
                   DictGet(JsonLoads(reply.content.s).val, <<"response">>), "")
\* classify_ticket, lines 70-95: the pair it returns and what it prints.
\* An exception of the request, a content that is no str (TypeError in
\* json.loads) and a parsed value without .get (AttributeError) reach the
\* outer except; a JSONDecodeError reaches the inner one.
classify_ticket(reply) ==
    IF reply.raised THEN Predicted(PyNone, PyNone, "Error")
    ELSE IF reply.content.t # "str" THEN Predicted(PyNone, PyNone, "Error")
    ELSE With(JsonLoads(reply.content.s), LAMBDA result :
            IF ~result.ok THEN Predicted(PyNone, PyNone, "Warning")
            ELSE IF result.val.t # "dict" THEN Predicted(PyNone, PyNone, "Error")
            ELSE Predicted(DictGet(result.val, <<"category">>),
                           DictGet(result.val, <<"response">>), ""))

\* The answers the model considers.
ReplyOf(category) ==
    Content(PyStr(JsonDumps(PyDict(<<Item(<<"category">>, PyStr(<<category>>)),
                                     Item(<<"response">>, PyStr(<<"We are on it">>))>>))))
Replies ==
    {Raised,
     Content(PyNone),
     Content(PyStr(<<"Sorry, I cannot help with that">>)),
     Content(PyStr(JsonDumps(PyList(<<PyStr(<<"billing">>)>>)))),
     Content(PyStr(JsonDumps(PyDict(<<Item(<<"response">>, PyStr(<<"We are on it">>))>>)))),
     ReplyOf("billing"),
     ReplyOf("account")}

\* classify_ticket on each of these answers.
Classified == [reply \in Replies |-> classify_ticket(reply)]

\* Lines 160, 258, 268: (correct / total) * 100, kept as the exact fraction
\* 100 * correct / total. The double the code computes compares with 80.0 as
\* the fraction does for every total below 1500.
Accuracy(c, t) == [num |-> 100 * c, den |-> t]

\* Lines 170-173: the verdict print_validation_report prints.
Verdict(accuracy) ==
    IF accuracy.num >= 80 * accuracy.den THEN "PASSED" ELSE "FAILED"

\* Line 269 with > for >=.
ExitStatusAbove(accuracy) == IF accuracy.num > 80 * accuracy.den THEN 0 ELSE 1
\* Line 269: return 0 if accuracy >= 80.0 else 1.
ExitStatus(accuracy) == IF accuracy.num >= 80 * accuracy.den THEN 0 ELSE 1

\* The rows of a validation file of n examples, of two categories in turn.
ValRow(i) ==
    [ticket_text |-> PyStr(<<"ticket ", DigitAtoms[i + 1]>>),
     category |-> PyStr(<<IF i % 2 = 1 THEN "billing" ELSE "account">>),
     answer |-> PlainRecord.answer]
ValRows(n) == [i \in 1..n |-> ValRow(i)]

\* The validation files: one of each length, one whose second line is JSON
\* but no Training Example, and one whose third line is no JSON.
ValFiles ==
    {PyNone}
    \cup {PyStr(save_jsonl(ValRows(n), ShortPrompt.s)) : n \in 0..MaxExamples}
    \cup {PyStr(save_jsonl(ValRows(1), ShortPrompt.s) \o <<"{", "}", NL>>)}
    \cup {PyStr(save_jsonl(ValRows(2), ShortPrompt.s) \o <<"{", DQ, "messages", NL>>)}

ScKeys == {PyNone, PyStr(<<>>), PyStr(<<"k">>), PyStr(KeyPrefix)}
IdFiles == {PyNone, PyStr(<<>>), PyStr(<<NL>>), NewModel, PyStr(NewModel.s \o <<NL>>)}

\* The surroundings of a run: each of the three inputs takes every value
\* while the other two are good.
GoodKey == PyStr(KeyPrefix)
GoodIdFile == PyStr(NewModel.s \o <<NL>>)
GoodValFile == PyStr(save_jsonl(ValRows(1), ShortPrompt.s))
Surroundings ==
    {<<k, GoodIdFile, GoodValFile>> : k \in ScKeys}
    \cup {<<GoodKey, f, GoodValFile>> : f \in IdFiles}
    \cup {<<GoodKey, GoodIdFile, f>> : f \in ValFiles}
    \cup {<<GoodKey, PyNone, PyNone>>}

\* Lines 103-111: the system prompt of validate_model, a literal. It is cut
\* into atoms as create_system_prompt cuts its text.
validate_model_system_prompt ==
    <<"You are a support ticket classifier for a coaching company. ",
      "Classify tickets into one of these categories: ",
      "account", ", ", "billing", ", ",
      "cancellation", ", ", "coach", ", ", "content", ", ", "feedback", ", ",
      "membership", ", ", "password", ", ",
      "scheduling", ", ", "technical", ". ",
      "Generate a polite, concise, and helpful response addressing the ticket. ",
      "Always respond in valid JSON format with exactly two keys: ",
      DQ, "category", DQ, " (one of the categories above) and ",
      DQ, "response", DQ, " (your helpful reply).">>

\* Lines 73-81 and 125-127: classification request number i, with the system
\* prompt and the ticket text it carries.
Request(i, system_prompt, ticket_text) ==
    [ev |-> "request", i |-> i, system |-> system_prompt, ticket |-> ticket_text]

\* The loop of line 118 staying on its first example.
ExampleFirst(examples, i) == examples[1]
\* Line 118: for i, example in enumerate(validation_examples, 1).
Example(examples, i) == examples[i]

\* Line 154: the seconds of the pause between two requests.
RequestPause == 1

\* Line 153 with a pause after every request.
PausesAlways(i, n) == TRUE
\* Line 153: if i < total.
Pauses(i, n) == i < n

\* The line number a JSONDecodeError reports: it is counted within the text
\* json.loads was given, here the one line of the file: 1, or 2 when the
\* parse fails past the newline that ends the line. The other exceptions of
\* the load (KeyError, IndexError, TypeError) carry no line number.
ErrorLineNos(exc) == IF exc = "JSONDecodeError" THEN {PyInt(1), PyInt(2)} ELSE {PyNone}
\* The uncaught exception of the load as the traceback shows it.
Traceback(exc, lineno) == [ev |-> "traceback", exc |-> exc, lineno |-> lineno]

ScInit ==
    /\ sc_pc = "check_key"
    /\ \E around \in Surroundings :
         /\ sc_key = around[1]
         /\ sc_id_file = around[2]
         /\ sc_val_file = around[3]
    /\ sc_model_id = PyNone
    /\ validation_examples = <<>>
    /\ replies = <<>>
    /\ correct = 0
    /\ total = 0
    /\ results = <<>>
    /\ per_category_stats = <<>>
    /\ sc_log = <<>>
    /\ results_file = PyNone
    /\ sc_exit = PyNone

ScIdle ==
    /\ sc_pc = "idle"
    /\ sc_key = PyNone
    /\ sc_id_file = PyNone
    /\ sc_val_file = PyNone
    /\ sc_model_id = PyNone
    /\ validation_examples = <<>>
    /\ replies = <<>>
    /\ correct = 0
    /\ total = 0
    /\ results = <<>>
    /\ per_category_stats = <<>>
    /\ sc_log = <<>>
    /\ results_file = PyNone
    /\ sc_exit = PyNone

\* The process ends with status n.
ScExit(n, events) ==
    /\ sc_exit' = PyInt(n)
    /\ sc_pc' = "done"
    /\ sc_log' = sc_log \o events

ScGoto(step, events) ==
    /\ sc_pc' = step
    /\ sc_log' = sc_log \o events
    /\ UNCHANGED sc_exit

\* Lines 225-230: the key must be set.
ScCheckKey ==
    /\ sc_pc = "check_key"
    /\ IF ~Truthy(sc_key)
       THEN ScExit(1, <<Event("no key")>>)
       ELSE ScGoto("load_model", <<>>)
    /\ UNCHANGED <<sc_key, sc_id_file, sc_val_file, sc_model_id, validation_examples,
                   replies, correct, total, results, per_category_stats,
                   results_file, notScVars>>

\* Lines 235-238: model_id = load_model_id(); if not model_id: return 1.
ScLoadModel ==
    /\ sc_pc = "load_model"
    /\ sc_model_id' = load_model_id(sc_id_file)
    /\ IF ~Truthy(load_model_id(sc_id_file))
       THEN ScExit(1, <<Event("no model")>>)
       ELSE ScGoto("load_data", <<>>)
    /\ UNCHANGED <<sc_key, sc_id_file, sc_val_file, validation_examples, replies,
                   correct, total, results, per_category_stats, results_file,
                   notScVars>>

\* Line 242 with the test dropped.
NoExamplesIgnored(examples) == FALSE
\* Line 242: if not validation_examples, of a list or None.
NoExamples(examples) == examples = <<>>

\* Lines 240-243 and 37-68: the validation file is loaded outside the try of
\* main, so an exception of the load ends the process with a traceback and
\* status 1; no file or no example ends main with 1.
ScLoadData ==
    /\ sc_pc = "load_data"
    /\ IF sc_val_file = PyNone
       THEN /\ ScExit(1, <<Event("no validation file")>>)
            /\ UNCHANGED <<validation_examples, total>>
       ELSE \E loaded \in {load_validation_data(sc_val_file.s)} :
              IF loaded.exc # ""
              THEN /\ \E lineno \in ErrorLineNos(loaded.exc) :
                        ScExit(1, <<Traceback(loaded.exc, lineno)>>)
                   /\ UNCHANGED <<validation_examples, total>>
              ELSE IF NoExamples(loaded.val)
              THEN /\ ScExit(1, <<>>)
                   /\ UNCHANGED <<validation_examples, total>>
              ELSE /\ validation_examples' = loaded.val
                   /\ total' = Len(loaded.val)
                   /\ ScGoto("score", <<>>)
    /\ UNCHANGED <<sc_key, sc_id_file, sc_val_file, sc_model_id, replies, correct,
                   results, per_category_stats, results_file, notScVars>>

\* per_category_stats[category], a defaultdict: a new key starts at zero.
StatsOf(stats, category) ==
    IF \E k \in 1..Len(stats) : stats[k].k = category
    THEN stats[CHOOSE k \in 1..Len(stats) : stats[k].k = category].v
    ELSE [correct |-> 0, total |-> 0]

\* Lines 139-141 with the correct count of the bucket raised at every record.
StatsUpdateAlwaysCorrect(stats, category, is_correct) ==
    DictSet(stats, category,
            [correct |-> StatsOf(stats, category).correct + 1,
             total |-> StatsOf(stats, category).total + 1])
\* Lines 139-141 on the items of per_category_stats.
StatsUpdate(stats, category, is_correct) ==
    DictSet(stats, category,
            [correct |-> StatsOf(stats, category).correct + (IF is_correct THEN 1 ELSE 0),
             total |-> StatsOf(stats, category).total + 1])

\* Lines 118-154: one turn of the loop of validate_model, for example number
\* Len(results) + 1: the request, the comparison, the counters, the result,
\* and the pause when another example follows. validate_model catches
\* nothing: an exception that left classify_ticket would reach line 271.
ScScore ==
    /\ sc_pc = "score"
    /\ Len(results) < total
    /\ \E reply \in Replies :
         LET i == Len(results) + 1
             example == Example(validation_examples, i)
             predicted == Classified[reply]
             is_correct == predicted.category = example.expected_category
         IN /\ replies' = Append(replies, reply)
            /\ IF predicted.exc # ""
               THEN /\ ScExit(1, <<Request(i, validate_model_system_prompt,
                                            example.ticket_text),
                                    Event("exception")>>)
                    /\ UNCHANGED <<correct, per_category_stats, results>>
               ELSE /\ correct' = IF is_correct THEN correct + 1 ELSE correct
                    /\ per_category_stats' =
                          StatsUpdate(per_category_stats, example.expected_category.s,
                                      is_correct)
                    /\ results' = Append(results,
                          [ticket_text |-> example.ticket_text,
                           expected_category |-> example.expected_category,
                           predicted_category |-> predicted.category,
                           is_correct |-> is_correct,
                           predicted_response |-> predicted.response])
                    /\ ScGoto("score",
                              <<Request(i, validate_model_system_prompt,
                                        example.ticket_text)>>
                              \o (IF predicted.printed = "" THEN <<>>
                                  ELSE <<Event(predicted.printed)>>)
                              \o (IF Pauses(i, total) THEN <<Sleep(RequestPause)>>
                                  ELSE <<>>))
    /\ UNCHANGED <<sc_key, sc_id_file, sc_val_file, sc_model_id, validation_examples,
                   total, results_file, notScVars>>

\* Lines 156-173 and 252: validate_model returns and the report is printed.
ScReport ==
    /\ sc_pc = "score"
    /\ Len(results) = total
    /\ ScGoto("save", <<[ev |-> "report", accuracy |-> Accuracy(correct, total),
                        verdict |-> Verdict(Accuracy(correct, total))]>>)
    /\ UNCHANGED <<sc_key, sc_id_file, sc_val_file, sc_model_id, validation_examples,
                   replies, correct, total, results, per_category_stats,
                   results_file, notScVars>>

\* Lines 254-269: the results are written and the status follows the
\* accuracy; or the write fails, and the exception is caught at line 271.
ScSave ==
    /\ sc_pc = "save"
    /\ \/ /\ results_file' =
                [accuracy |-> Accuracy(correct, total), correct |-> correct,
                 total |-> total, per_category_stats |-> per_category_stats,
                 results |-> results]
          /\ ScExit(ExitStatus(Accuracy(correct, total)), <<Event("saved")>>)
       \/ /\ results_file' \in {results_file, PyStr(<<>>)}
          /\ ScExit(1, <<Event("exception")>>)
    /\ UNCHANGED <<sc_key, sc_id_file, sc_val_file, sc_model_id, validation_examples,
                   replies, correct, total, results, per_category_stats, notScVars>>

(***************************************************************************)
(* Claims about the Scorer.                                                *)
(***************************************************************************)
\* The answers that fail one record: the request raised, or its content is
\* not the text of a JSON object.
FailedReplies ==
    {reply \in Replies :
        \/ reply.raised
        \/ reply.content.t # "str"
        \/ ~JsonLoads(reply.content.s).ok
        \/ JsonLoads(reply.content.s).val.t # "dict"}

CorrectResults == {i \in 1..Len(results) : results[i].is_correct}

\* validate_model has returned to main.
Scored == sc_pc = "save" \/ (sc_pc = "done" /\ replies # <<>>)

\* C6: a failure local to one record never aborts the run: when the request
\* raised or the reply is not parseable as structured data, both predicted
\* fields are None and the record is counted as incorrect; validate_model
\* goes on through every remaining record and returns the aggregate.
C6_RecordFailureIsIncorrect ==
    /\ Len(results) = Len(replies)
    /\ \A i \in 1..Len(results) :
         replies[i] \in FailedReplies =>
            /\ results[i].predicted_category = PyNone
            /\ results[i].predicted_response = PyNone
            /\ ~results[i].is_correct
    /\ correct = Cardinality(CorrectResults)
    /\ sc_pc = "score" => sc_exit = PyNone
    /\ Scored =>
         /\ Len(results) = Len(validation_examples)
         /\ total = Len(validation_examples)
         /\ \E k \in 1..Len(sc_log) :
               /\ sc_log[k].ev = "report"
               /\ sc_log[k].accuracy = Accuracy(Cardinality(CorrectResults), Len(results))

\* A run whose first request raised and whose second reply was no JSON ended
\* after scoring five records.
C6_Witness ==
    /\ sc_pc = "done"
    /\ Len(results) = 5
    /\ replies[1] = Raised
    /\ replies[2] = Content(PyStr(<<"Sorry, I cannot help with that">>))
    /\ results[5].is_correct
    /\ correct = 3

\* The report of the log.
Reports == SelectSeq(sc_log, LAMBDA e : e.ev = "report")

\* At least 80 per cent of the results are correct.
AtLeast80 == 100 * Cardinality(CorrectResults) >= 80 * Len(results)

\* C7: in a run that completes (the results file is written), on total >= 1
\* records: the accuracy reported is correct / total as a percentage, the
\* verdict printed is PASSED exactly when it is at least 80, and the exit
\* status is 0 exactly when it is at least 80.
C7_VerdictAndExitAgree ==
    /\ Len(Reports) <= 1
    /\ Reports # <<>> =>
         /\ Len(results) >= 1
         /\ Reports[1].accuracy.den = Len(results)
         /\ Reports[1].accuracy.num = 100 * Cardinality(CorrectResults)
         /\ Reports[1].verdict = "PASSED" <=> AtLeast80
    /\ (sc_pc = "done" /\ sc_log # <<>> /\ sc_log[Len(sc_log)] = Event("saved")) =>
         /\ Reports # <<>>
         /\ sc_exit = PyInt(0) <=> AtLeast80
         /\ sc_exit = PyInt(0) <=> Reports[1].verdict = "PASSED"
         /\ sc_exit \in {PyInt(0), PyInt(1)}
         /\ results_file.accuracy = Reports[1].accuracy

\* A run with four of five records correct, exactly 80 per cent, has passed.
C7_Witness ==
    /\ sc_pc = "done"
    /\ Len(results) = 5
    /\ Cardinality(CorrectResults) = 4
    /\ Reports # <<>>
    /\ Reports[1].verdict = "PASSED"
    /\ sc_exit = PyInt(0)

\* The requests and the pauses of the log, in order.
ScCadence == SelectSeq(sc_log, LAMBDA e : e.ev \in {"request", "sleep"})
Requests == SelectSeq(sc_log, LAMBDA e : e.ev = "request")
PauseEvents == SelectSeq(sc_log, LAMBDA e : e.ev = "sleep")

\* C14: the pause of one second stands between consecutive requests and not
\* after the last: requests and pauses alternate, the pause after request i
\* comes before request i + 1, and once all N >= 1 records are scored there
\* were N requests and N - 1 pauses, the last of them before request N.
C14_PauseBetweenRequests ==
    /\ \A k \in 1..Len(ScCadence) :
         IF k % 2 = 1
         THEN ScCadence[k].ev = "request" /\ ScCadence[k].i = (k + 1) \div 2
         ELSE ScCadence[k] = Sleep(1)
    /\ (sc_pc = "score" /\ Len(results) < total) => Len(ScCadence) = 2 * Len(results)
    /\ Scored =>
         /\ Len(Requests) = total
         /\ Len(PauseEvents) = total - 1
         /\ ScCadence[Len(ScCadence)].ev = "request"

\* Five records were scored with four pauses.
C14_Witness ==
    /\ sc_pc = "save"
    /\ total = 5
    /\ Len(Requests) = 5
    /\ Len(PauseEvents) = 4

\* C15: when the model id file or the validation file is missing, main
\* returns 1 without a classification request and without writing the
\* results file.
C15_MissingInputAborts ==
    /\ (sc_id_file = PyNone /\ sc_pc \notin {"check_key", "load_model"}) =>
         /\ sc_pc = "done" /\ sc_exit = PyInt(1)
         /\ Requests = <<>> /\ replies = <<>>
         /\ results_file = PyNone
    /\ (sc_val_file = PyNone /\ sc_pc \notin {"check_key", "load_model", "load_data"}) =>
         /\ sc_pc = "done" /\ sc_exit = PyInt(1)
         /\ Requests = <<>> /\ replies = <<>>
         /\ results_file = PyNone

\* A run with a key and a model id ended at the missing validation file.
C15_Witness ==
    /\ sc_pc = "done"
    /\ sc_val_file = PyNone
    /\ sc_model_id = NewModel
    /\ sc_log = <<Event("no validation file")>>
    /\ sc_exit = PyInt(1)

\* C17 as the specification words it: the system instruction of every
\* classification request is the system instruction the Splitter embeds in
\* every training example, create_system_prompt of the ten categories.
C17_SameSystemInstruction ==
    \A k \in 1..Len(Requests) :
        Requests[k].system = create_system_prompt(Range(CategoryNames))

\* Each validation file read line by line: what every line gives.
LinesLoaded ==
    [file \in ValFiles \ {PyNone} |->
        [k \in 1..Len(ReadLines(file.s)) |-> LoadLine(ReadLines(file.s)[k])]]

\* The lines of the validation file that do not give an example.
UnparsedLines ==
    IF sc_val_file = PyNone THEN {}
    ELSE {k \in DOMAIN LinesLoaded[sc_val_file] : LinesLoaded[sc_val_file][k].exc # ""}

\* The traceback of the log.
Tracebacks == SelectSeq(sc_log, LAMBDA e : e.ev = "traceback")

\* A validation file with a line that gives no example makes the load raise:
\* no example is kept and no request is made.
LoadRaisesAsAWhole ==
    (UnparsedLines # {} /\ sc_pc \notin {"check_key", "load_model", "load_data"}) =>
        /\ sc_pc = "done" /\ sc_exit = PyInt(1)
        /\ Len(Tracebacks) = 1
        /\ validation_examples = <<>>
        /\ Requests = <<>>

\* C18 as the specification words it: a line of the validation file that
\* cannot be parsed makes the load raise an error that identifies the
\* offending line of the file; the line is not skipped and no partial list
\* of examples is returned.
C18_ParseErrorNamesLine ==
    /\ LoadRaisesAsAWhole
    /\ (UnparsedLines # {} /\ Tracebacks # <<>>) =>
         Tracebacks[1].lineno = PyInt(CHOOSE k \in UnparsedLines :
                                         \A j \in UnparsedLines : k <= j)

\* C19: one classification request per validation record, in the order of
\* the validation file, and one result for each in the same order: request
\* number i carries the ticket of record i and result i is that of record i,
\* whatever the answers were; after N records there are N requests and N
\* results.
C19_OneRequestPerRecord ==
    /\ (sc_pc = "score" /\ results = <<>>) =>
         validation_examples = [k \in DOMAIN LinesLoaded[sc_val_file] |->
                                   LinesLoaded[sc_val_file][k].val]
    /\ Len(Requests) = Len(results)
    /\ Len(replies) = Len(results)
    /\ Len(results) <= Len(validation_examples)
    /\ \A k \in 1..Len(Requests) :
         /\ Requests[k].i = k
         /\ Requests[k].ticket = validation_examples[k].ticket_text
         /\ results[k].ticket_text = validation_examples[k].ticket_text
         /\ results[k].expected_category = validation_examples[k].expected_category
    /\ Scored => Len(Requests) = Len(validation_examples)

\* Three records were scored, the first request raised and the last was
\* answered with the wrong category.
C19_Witness ==
    /\ sc_pc = "save"
    /\ Len(validation_examples) = 3
    /\ Len(Requests) = 3
    /\ replies[1] = Raised
    /\ Requests[3].ticket = ValRow(3).ticket_text
    /\ ~results[3].is_correct

RECURSIVE SumOf(_, _)
\* The sum of one counter over the buckets of per_category_stats.
SumOf(stats, counter) ==
    IF stats = <<>> THEN 0
    ELSE (IF counter = "correct" THEN Head(stats).v.correct ELSE Head(stats).v.total)
         + SumOf(Tail(stats), counter)

\* The results whose expected category is this one.
ResultsOf(category) == {i \in 1..Len(results) : results[i].expected_category.s = category}

\* C21: after every record, 0 <= correct <= processed <= total; every bucket
\* of per_category_stats, keyed by the expected category, has
\* 0 <= correct <= total and counts the results of its category; the totals
\* of the buckets add up to the records processed and their correct counts
\* to correct; and correct is the number of results flagged correct.
C21_Counters ==
    /\ 0 <= correct /\ correct <= Len(results) /\ Len(results) <= total
    /\ \A k \in 1..Len(per_category_stats) :
         /\ 0 <= per_category_stats[k].v.correct
         /\ per_category_stats[k].v.correct <= per_category_stats[k].v.total
         /\ per_category_stats[k].v.total =
               Cardinality(ResultsOf(per_category_stats[k].k))
         /\ per_category_stats[k].v.correct =
               Cardinality(ResultsOf(per_category_stats[k].k) \cap CorrectResults)
         /\ \A j \in 1..Len(per_category_stats) :
               per_category_stats[j].k = per_category_stats[k].k => j = k
    /\ \A i \in 1..Len(results) :
         \E k \in 1..Len(per_category_stats) :
            per_category_stats[k].k = results[i].expected_category.s
    /\ SumOf(per_category_stats, "total") = Len(results)
    /\ SumOf(per_category_stats, "correct") = correct
    /\ correct = Cardinality(CorrectResults)

\* Five records of two categories were scored, three of them right, with a
\* bucket of three records all right.
C21_Witness ==
    /\ Len(results) = 5
    /\ correct = 3
    /\ Len(per_category_stats) = 2
    /\ \E k \in 1..2 : per_category_stats[k].v = [correct |-> 3, total |-> 3]
    /\ \E k \in 1..2 : per_category_stats[k].v = [correct |-> 0, total |-> 2]

\* The validation file exists and holds no line.
EmptyValFile == sc_val_file = PyStr(<<>>)

\* C22: the accuracy is only computed with total >= 1: a validation file
\* that exists and gives no example makes main return 1 before
\* validate_model runs, without a request, a report or a results file; and
\* whenever the loop, the report or the save is reached, total >= 1.
C22_NeverDividesByZero ==
    /\ (EmptyValFile /\ sc_pc \notin {"check_key", "load_model", "load_data"}) =>
         /\ sc_pc = "done" /\ sc_exit = PyInt(1)
         /\ Requests = <<>> /\ replies = <<>>
         /\ Reports = <<>>
         /\ results_file = PyNone
    /\ sc_pc \in {"score", "save"} => total >= 1 /\ total = Len(validation_examples)
    /\ \A k \in 1..Len(Reports) : Reports[k].accuracy.den >= 1
    /\ results_file \notin {PyNone, PyStr(<<>>)} => results_file.accuracy.den >= 1

\* A run with a key and a model id ended at the empty validation file.
C22_Witness ==
    /\ EmptyValFile
    /\ sc_pc = "done"
    /\ sc_model_id = NewModel
    /\ sc_log = <<>>
    /\ sc_exit = PyInt(1)

(***************************************************************************)
(* The specifications: one per stage or function, the rest idle.           *)
(***************************************************************************)
SplitNext == SplitStart \/ SplitGroup \/ SplitReturn
SplitSpecInit == SplitInit /\ RtIdle /\ VjIdle /\ DrvIdle /\ ScIdle
SplitSpec == SplitSpecInit /\ [][SplitNext]_vars

RtNext == RtSave \/ RtLoad
RoundTripInit == RtInit /\ SplitIdle /\ VjIdle /\ DrvIdle /\ ScIdle
RoundTripSpec == RoundTripInit /\ [][RtNext]_vars

VjNext == VjReadLines \/ VjLine \/ VjReturnTrue
ValidateInit == VjInit /\ SplitIdle /\ RtIdle /\ DrvIdle /\ ScIdle
ValidateSpec == ValidateInit /\ [][VjNext]_vars

DrvNext ==
    \/ DrvCheckKey \/ DrvCheckFile \/ DrvEstimate \/ DrvConfirm \/ DrvUpload
    \/ DrvCreate \/ DrvPoll \/ DrvSleep \/ DrvDecide \/ DrvWriteId \/ DrvWriteMeta
    \/ JobAdvance
DriverInit == DrvInit /\ SplitIdle /\ RtIdle /\ VjIdle /\ ScIdle
DriverSpec == DriverInit /\ [][DrvNext]_vars
\* The run takes its steps, the provider answers, and the job finishes at last.
DriverFairSpec == DriverSpec /\ WF_vars(DrvStep) /\ WF_vars(JobFinish)

ScNext == ScCheckKey \/ ScLoadModel \/ ScLoadData \/ ScScore \/ ScReport \/ ScSave
ScorerInit == ScInit /\ SplitIdle /\ RtIdle /\ VjIdle /\ DrvIdle
ScorerSpec == ScorerInit /\ [][ScNext]_vars

=============================================================================
